---- MODULE Spec2Model ----
(***************************************************************************)
(* Model of the finance_tracker MCP server: the deterministic local        *)
(* TransactionParser (tools/transaction_parser.py), the LLM-backed parser  *)
(* (tools/llm_service.py) and the request handlers of main.py.             *)
(*                                                                         *)
(* A text is a sequence of one-character strings.  The regular expressions *)
(* of the source are written as syntax trees and run by a backtracking     *)
(* matcher that returns end positions in the order Python's re tries them. *)
(***************************************************************************)
EXTENDS Integers, Sequences, FiniteSets, TLC

\* ------------------------------------------------------------------------
\* Characters
\* ------------------------------------------------------------------------
Digit == {"0", "1", "2", "3", "4", "5", "6", "7", "8", "9"}

LowerLetter ==
  {"a", "b", "c", "d", "e", "f", "g", "h", "i", "j", "k", "l", "m",
   "n", "o", "p", "q", "r", "s", "t", "u", "v", "w", "x", "y", "z"}

UpperLetter ==
  {"A", "B", "C", "D", "E", "F", "G", "H", "I", "J", "K", "L", "M",
   "N", "O", "P", "Q", "R", "S", "T", "U", "V", "W", "X", "Y", "Z"}

\* the characters of the class [₹$€£¥]
Glyph == {"₹", "$", "€", "£", "¥"}

\* \s restricted to the blank, the only white space of the modelled texts
Space == {" "}

\* \w of Python's re on str patterns: letters, digits and the underscore
WordChar == Digit \cup LowerLetter \cup UpperLetter \cup {"_"}

UpperToLower ==
  [c \in UpperLetter |->
     CASE c = "A" -> "a" [] c = "B" -> "b" [] c = "C" -> "c" [] c = "D" -> "d"
       [] c = "E" -> "e" [] c = "F" -> "f" [] c = "G" -> "g" [] c = "H" -> "h"
       [] c = "I" -> "i" [] c = "J" -> "j" [] c = "K" -> "k" [] c = "L" -> "l"
       [] c = "M" -> "m" [] c = "N" -> "n" [] c = "O" -> "o" [] c = "P" -> "p"
       [] c = "Q" -> "q" [] c = "R" -> "r" [] c = "S" -> "s" [] c = "T" -> "t"
       [] c = "U" -> "u" [] c = "V" -> "v" [] c = "W" -> "w" [] c = "X" -> "x"
       [] c = "Y" -> "y" [] OTHER -> "z"]

\* F applied to the value of v, with v evaluated once
Strict(v, F(_)) == CHOOSE r \in {F(x) : x \in {v}} : TRUE

\* the sequence <<F(1), ..., F(n)>>
MapIndex(n, F(_)) == SubSeq([k \in 1..n |-> F(k)], 1, n)

\* the elements of s whose index satisfies Keep, in order
SelectIndex(s, Keep(_)) ==
  Strict(SelectSeq(MapIndex(Len(s), LAMBDA k : k), Keep), LAMBDA ks :
    MapIndex(Len(ks), LAMBDA n : s[ks[n]]))

\* the least element of a set of integers that is not empty
Least(S) == CHOOSE x \in S : \A y \in S : x <= y

\* the first k in 1..n that satisfies P, 0 when there is none
FirstSuch(n, P(_)) ==
  Strict({k \in 1..n : P(k)}, LAMBDA hits : IF hits = {} THEN 0 ELSE Least(hits))

\* F applied to every element of list in turn, the results concatenated
FlatMap(list, F(_)) ==
  Strict(list, LAMBDA l :
    LET f[n \in 0..Len(l)] == IF n = 0 THEN <<>> ELSE f[n - 1] \o F(l[n])
    IN f[Len(l)])

\* str.lower(), character by character
lower(text) ==
  MapIndex(Len(text), LAMBDA i :
    IF text[i] \in UpperLetter THEN UpperToLower[text[i]] ELSE text[i])

DigitValue ==
  [c \in Digit |->
     CASE c = "0" -> 0 [] c = "1" -> 1 [] c = "2" -> 2 [] c = "3" -> 3
       [] c = "4" -> 4 [] c = "5" -> 5 [] c = "6" -> 6 [] c = "7" -> 7
       [] c = "8" -> 8 [] OTHER -> 9]

\* ------------------------------------------------------------------------
\* Regular expressions (module re)
\* ------------------------------------------------------------------------
Cls(S) == [op |-> "cls", set |-> S]
Lit(w) == [op |-> "lit", str |-> w]
Cat(parts) == [op |-> "cat", parts |-> parts]
Alt(alts) == [op |-> "alt", alts |-> alts]
Rep(r, lo, hi, greedy) == [op |-> "rep", r |-> r, lo |-> lo, hi |-> hi, greedy |-> greedy]
Eos == [op |-> "eos"]
Wb == [op |-> "wb"]

\* r?, r+, r*, r+? ; an upper count of -1 stands for "no limit"
Opt(r) == Rep(r, 0, 1, TRUE)
Plus(r) == Rep(r, 1, -1, TRUE)
Star(r) == Rep(r, 0, -1, TRUE)
LazyPlus(r) == Rep(r, 1, -1, FALSE)

Empty == Cat(<<>>)

\* \b at position i (between s[i-1] and s[i])
IsWordBoundary(s, i) ==
  LET before == i > 1 /\ s[i - 1] \in WordChar
      after == i <= Len(s) /\ s[i] \in WordChar
  IN before # after

\* how many characters of s from position i on belong to set, one after the
\* other
RunLength(s, i, set) ==
  CHOOSE n \in 0..(Len(s) - i + 1) :
    /\ \A k \in 0..(n - 1) : s[i + k] \in set
    /\ i + n > Len(s) \/ s[i + n] \notin set

\* M(re, s, i): the positions just after a match of re that starts at i, in
\* the order the backtracking engine tries them (first = preferred)
RECURSIVE M(_, _, _)
RECURSIVE MCat(_, _, _)
RECURSIVE MRep(_, _, _)

\* a repeated character class: the class matches run characters from i on;
\* the repeat can end after lo..hi of them, a greedy one preferring the most
\* and a lazy one the fewest
MRepCls(re, s, i) ==
  Strict(RunLength(s, i, re.r.set), LAMBDA run :
    Strict(IF re.hi < 0 \/ run < re.hi THEN run ELSE re.hi, LAMBDA top :
      IF top < re.lo THEN <<>>
      ELSE MapIndex(top - re.lo + 1, LAMBDA k :
             IF re.greedy THEN i + top - k + 1 ELSE i + re.lo + k - 1)))

M(re, s, i) ==
  CASE re.op = "cls" -> IF i <= Len(s) /\ s[i] \in re.set THEN <<i + 1>> ELSE <<>>
    [] re.op = "lit" ->
         IF i + Len(re.str) - 1 <= Len(s) /\ SubSeq(s, i, i + Len(re.str) - 1) = re.str
         THEN <<i + Len(re.str)>> ELSE <<>>
    [] re.op = "cat" -> MCat(re.parts, s, i)
    [] re.op = "alt" -> FlatMap(re.alts, LAMBDA a : M(a, s, i))
    [] re.op = "rep" -> IF re.r.op = "cls" THEN MRepCls(re, s, i) ELSE MRep(re, s, i)
    [] re.op = "eos" -> IF i = Len(s) + 1 THEN <<i>> ELSE <<>>
    [] re.op = "wb" -> IF IsWordBoundary(s, i) THEN <<i>> ELSE <<>>

\* c[k]: where the first k parts can end, each part continued from every end
\* of the part before, in order
MCat(parts, s, i) ==
  LET c[k \in 0..Len(parts)] ==
        IF k = 0 THEN <<i>>
        ELSE FlatMap(c[k - 1], LAMBDA j : M(parts[k], s, j))
  IN c[Len(parts)]

\* g[j, n]: where the repeat can end once n rounds have brought it to j; a
\* greedy repeat prefers one more round, a lazy one prefers to stop; a round
\* that matches nothing is not repeated
MRep(re, s, i) ==
  LET g[p \in (i..(Len(s) + 1)) \X (0..Len(s))] ==
        LET j == p[1]
            n == p[2]
            stop == IF n >= re.lo THEN <<j>> ELSE <<>>
            more == IF re.hi < 0 \/ n < re.hi
                    THEN FlatMap(SelectSeq(M(re.r, s, j), LAMBDA e : e > j),
                                 LAMBDA e : g[<<e, n + 1>>])
                    ELSE <<>>
        IN IF re.greedy THEN more \o stop ELSE stop \o more
  IN g[<<i, 0>>]

NoMatch == [found |-> FALSE]

\* for a group that starts at g0: <<end of the group, end of the match>>
\* along the first way to match the group and what follows it, <<>> when
\* there is none
FirstGroupEnd(grp, post, s, g0) ==
  Strict(M(grp, s, g0), LAMBDA g1s :
    IF g1s = <<>> THEN <<>>
    ELSE
    Strict(FirstSuch(Len(g1s), LAMBDA b : M(post, s, g1s[b]) # <<>>), LAMBDA b :
      IF b = 0 THEN <<>> ELSE <<g1s[b], M(post, s, g1s[b])[1]>>))

\* the first way to match pre(grp)post from position i; g0..g1-1 is group 1
FirstMatchAt(pre, grp, post, s, i) ==
  Strict(M(pre, s, i), LAMBDA g0s :
    IF g0s = <<>> THEN NoMatch
    ELSE
    Strict(FirstSuch(Len(g0s), LAMBDA a : FirstGroupEnd(grp, post, s, g0s[a]) # <<>>),
           LAMBDA a :
      IF a = 0 THEN NoMatch
      ELSE Strict(FirstGroupEnd(grp, post, s, g0s[a]), LAMBDA ends :
             [found |-> TRUE, start |-> i, g0 |-> g0s[a], g1 |-> ends[1], end |-> ends[2]])))

\* re.search for a pattern written pre(grp)post: the leftmost start, and
\* there the first way to match
search(pre, grp, post, text) ==
  Strict(<<pre, grp, post, text>>, LAMBDA a :
    Strict(FirstSuch(Len(a[4]) + 1, LAMBDA i : FirstMatchAt(a[1], a[2], a[3], a[4], i).found),
           LAMBDA i :
      IF i = 0 THEN NoMatch ELSE FirstMatchAt(a[1], a[2], a[3], a[4], i)))

\* match.group(1) / match.group(0)
group1(m, s) == SubSeq(s, m.g0, m.g1 - 1)
group0(m, s) == SubSeq(s, m.start, m.end - 1)

\* the text s without the matches of re found in the text ls, leftmost
\* first and not overlapping: ends[i] is where the match at i ends (0: no
\* match), f[i] what stays of s from i on: the text up to the next match, and
\* what stays from the end of that match on.  None of the patterns of the
\* source matches the empty string.
SubFrom(re, s, ls) ==
  Strict(MapIndex(Len(s), LAMBDA i :
           Strict(M(re, ls, i), LAMBDA m : IF m # <<>> /\ m[1] > i THEN m[1] ELSE 0)),
         LAMBDA ends :
    LET f[i \in 1..(Len(s) + 1)] ==
          Strict({j \in i..Len(s) : ends[j] > 0}, LAMBDA matches :
            IF matches = {} THEN SubSeq(s, i, Len(s))
            ELSE SubSeq(s, i, Least(matches) - 1) \o f[ends[Least(matches)]])
    IN f[1])

\* re.sub(re, "", text)
sub(re, text) == Strict(<<re, text>>, LAMBDA a : SubFrom(a[1], a[2], a[2]))

\* re.sub(re, "", text, flags=re.IGNORECASE) for a lower-case pattern: the
\* matches are located in the lower-cased text and cut out of the text
subIgnoreCase(re, text) ==
  Strict(<<re, text, lower(text)>>, LAMBDA a : SubFrom(a[1], a[2], a[3]))

\* ------------------------------------------------------------------------
\* Optional values (None / a value)
\* ------------------------------------------------------------------------
None == <<>>
Some(x) == <<x>>
ValueOf(o) == o[1]

\* ------------------------------------------------------------------------
\* How a call ends: it returns a value or raises an exception
\* ------------------------------------------------------------------------
Return(v) == [kind |-> "return", value |-> v]
Raise(e) == [kind |-> "raise", exc |-> e]

\* ------------------------------------------------------------------------
\* TransactionParser.parse_amount
\* ------------------------------------------------------------------------
\* [0-9,]+(?:\.[0-9]{2})?
NumberRe ==
  Cat(<<Plus(Cls(Digit \cup {","})),
        Opt(Cat(<<Lit(<<".">>), Cls(Digit), Cls(Digit)>>))>>)

\* each pattern as <<before the group, group 1, after the group>>
\* the patterns with the plain number tried first
amount_patterns_PlainFirst ==
  << <<Empty, NumberRe, Empty>>,
     <<Cat(<<Cls(Glyph), Star(Cls(Space))>>), NumberRe, Empty>>,
     <<Empty, NumberRe,
       Cat(<<Star(Cls(Space)),
             Alt(<<Lit(<<"i", "n", "r">>), Lit(<<"u", "s", "d">>), Lit(<<"e", "u", "r">>), Lit(<<"g", "b", "p">>), Lit(<<"j", "p", "y">>)>>)>>)>>,
     <<Cat(<<Alt(<<Lit(<<"a", "m", "o", "u", "n", "t">>), Lit(<<"o", "f">>), Lit(<<"r", "u", "p", "e", "e", "s">>), Lit(<<"d", "o", "l", "l", "a", "r", "s">>),
                   Lit(<<"e", "u", "r", "o", "s">>)>>),
             Star(Cls(Space)), Opt(Lit(<<"i", "s">>)), Star(Cls(Space)), Opt(Lit(<<":">>)),
             Star(Cls(Space))>>),
       NumberRe, Empty>> >>

\* each pattern as <<before the group, group 1, after the group>>
amount_patterns ==
  << <<Cat(<<Cls(Glyph), Star(Cls(Space))>>), NumberRe, Empty>>,
     <<Empty, NumberRe,
       Cat(<<Star(Cls(Space)),
             Alt(<<Lit(<<"i", "n", "r">>), Lit(<<"u", "s", "d">>), Lit(<<"e", "u", "r">>), Lit(<<"g", "b", "p">>), Lit(<<"j", "p", "y">>)>>)>>)>>,
     <<Cat(<<Alt(<<Lit(<<"a", "m", "o", "u", "n", "t">>), Lit(<<"o", "f">>), Lit(<<"r", "u", "p", "e", "e", "s">>), Lit(<<"d", "o", "l", "l", "a", "r", "s">>),
                   Lit(<<"e", "u", "r", "o", "s">>)>>),
             Star(Cls(Space)), Opt(Lit(<<"i", "s">>)), Star(Cls(Space)), Opt(Lit(<<":">>)),
             Star(Cls(Space))>>),
       NumberRe, Empty>>,
     <<Empty, NumberRe, Empty>> >>

\* str.replace(c, "") for a one-character c
Remove(s, c) == SelectSeq(s, LAMBDA x : x # c)

\* the value of a string of digits
DigitsValue(s) ==
  LET v[n \in 0..Len(s)] == IF n = 0 THEN 0 ELSE 10 * v[n - 1] + DigitValue[s[n]]
  IN v[Len(s)]

\* float(s) for the strings the number grammar can produce once the commas
\* are gone: digits, digits.dd, .dd or nothing.  A float is held in
\* hundredths; the empty string raises ValueError.
float(str) ==
  Strict(str, LAMBDA s :
    IF s = <<>> THEN Raise("ValueError")
    ELSE IF Len(s) >= 3 /\ s[Len(s) - 2] = "."
         THEN Return(100 * DigitsValue(SubSeq(s, 1, Len(s) - 3))
                     + DigitsValue(SubSeq(s, Len(s) - 1, Len(s))))
         ELSE Return(100 * DigitsValue(s)))

\* what one round of the for loop of parse_amount does with a pattern
Continue == [kind |-> "continue"]

\* AmountTry without its except clause: the ValueError of float leaves
\* parse_amount
AmountTry_NoExcept(text_cleaned, k) ==
  Strict(search(amount_patterns[k][1], amount_patterns[k][2], amount_patterns[k][3],
                text_cleaned), LAMBDA match :
    IF ~match.found THEN Continue
    ELSE Strict(float(Remove(group1(match, text_cleaned), ",")), LAMBDA amount :
           IF amount.kind = "raise" THEN amount
           ELSE IF amount.value > 0 THEN Return(Some(amount.value))
           ELSE Continue))

\* AmountTry with the test amount >= 0 in place of amount > 0
AmountTry_ZeroAccepted(text_cleaned, k) ==
  Strict(search(amount_patterns[k][1], amount_patterns[k][2], amount_patterns[k][3],
                text_cleaned), LAMBDA match :
    IF ~match.found THEN Continue
    ELSE Strict(float(Remove(group1(match, text_cleaned), ",")), LAMBDA amount :
           IF amount.kind = "raise"
           THEN (IF amount.exc = "ValueError" THEN Continue ELSE amount)
           ELSE IF amount.value >= 0 THEN Return(Some(amount.value))
           ELSE Continue))

\* The body of the for loop of parse_amount for pattern k: it returns the
\* amount, or goes on to the next pattern when the pattern does not match,
\* when its group is not a number (except ValueError: continue) or when the
\* number is not positive.
AmountTry(text_cleaned, k) ==
  Strict(search(amount_patterns[k][1], amount_patterns[k][2], amount_patterns[k][3],
                text_cleaned), LAMBDA match :
    IF ~match.found THEN Continue
    ELSE Strict(float(Remove(group1(match, text_cleaned), ",")), LAMBDA amount :
           IF amount.kind = "raise"
           THEN (IF amount.exc = "ValueError" THEN Continue ELSE amount)
           ELSE IF amount.value > 0 THEN Return(Some(amount.value))
           ELSE Continue))

\* the for loop of parse_amount from pattern k on, and the final return None
AmountLoop(text_cleaned, from) ==
  LET loop[k \in from..(Len(amount_patterns) + 1)] ==
        IF k > Len(amount_patterns) THEN Return(None)
        ELSE IF AmountTry(text_cleaned, k).kind = "continue" THEN loop[k + 1]
        ELSE AmountTry(text_cleaned, k)
  IN loop[from]

parse_amount(text) == Strict(lower(text), LAMBDA text_cleaned : AmountLoop(text_cleaned, 1))

\* ------------------------------------------------------------------------
\* Calendar dates (datetime, timedelta)
\* ------------------------------------------------------------------------
IsLeap(y) == y % 4 = 0 /\ (y % 100 # 0 \/ y % 400 = 0)

DaysInMonth(y, m) ==
  IF m = 2 THEN (IF IsLeap(y) THEN 29 ELSE 28)
  ELSE IF m \in {4, 6, 9, 11} THEN 30 ELSE 31

IsValidDate(y, m, d) ==
  /\ y >= 1 /\ y <= 9999
  /\ m >= 1 /\ m <= 12
  /\ d >= 1 /\ d <= DaysInMonth(y, m)

\* date + timedelta(days=offset) for the offsets of DATE_KEYWORDS (-1, 0, 1)
AddDays(date, offset) ==
  IF offset = 0 THEN date
  ELSE IF offset = 1
  THEN IF date.day < DaysInMonth(date.year, date.month)
       THEN [date EXCEPT !.day = @ + 1]
       ELSE IF date.month < 12
       THEN [year |-> date.year, month |-> date.month + 1, day |-> 1]
       ELSE [year |-> date.year + 1, month |-> 1, day |-> 1]
  ELSE IF date.day > 1
       THEN [date EXCEPT !.day = @ - 1]
       ELSE IF date.month > 1
       THEN [year |-> date.year, month |-> date.month - 1,
             day |-> DaysInMonth(date.year, date.month - 1)]
       ELSE [year |-> date.year - 1, month |-> 12, day |-> 31]

DigitChars == <<"0", "1", "2", "3", "4", "5", "6", "7", "8", "9">>

\* n written with at least width digits, zero padded
Padded(n, width) ==
  LET p[a \in (0..n) \X (0..width)] ==
        IF a[2] <= 1 /\ a[1] < 10 THEN <<DigitChars[a[1] + 1]>>
        ELSE p[<<a[1] \div 10, IF a[2] > 0 THEN a[2] - 1 ELSE 0>>]
             \o <<DigitChars[(a[1] % 10) + 1]>>
  IN p[<<n, width>>]

\* date.isoformat(): YYYY-MM-DD
isoformat(date) ==
  Padded(date.year, 4) \o <<"-">> \o Padded(date.month, 2) \o <<"-">> \o Padded(date.day, 2)

\* ------------------------------------------------------------------------
\* datetime.strptime
\* ------------------------------------------------------------------------
MonthNames ==
  <<<<"j", "a", "n", "u", "a", "r", "y">>, <<"f", "e", "b", "r", "u", "a", "r", "y">>, <<"m", "a", "r", "c", "h">>, <<"a", "p", "r", "i", "l">>, <<"m", "a", "y">>, <<"j", "u", "n", "e">>,
    <<"j", "u", "l", "y">>, <<"a", "u", "g", "u", "s", "t">>, <<"s", "e", "p", "t", "e", "m", "b", "e", "r">>, <<"o", "c", "t", "o", "b", "e", "r">>, <<"n", "o", "v", "e", "m", "b", "e", "r">>, <<"d", "e", "c", "e", "m", "b", "e", "r">>>>

MonthAbbrs ==
  <<<<"j", "a", "n">>, <<"f", "e", "b">>, <<"m", "a", "r">>, <<"a", "p", "r">>, <<"m", "a", "y">>, <<"j", "u", "n">>,
    <<"j", "u", "l">>, <<"a", "u", "g">>, <<"s", "e", "p">>, <<"o", "c", "t">>, <<"n", "o", "v">>, <<"d", "e", "c">>>>

\* the regular expressions _strptime builds for the directives
DirectiveRe(d) ==
  CASE d = "d" ->
         Alt(<<Cat(<<Lit(<<"3">>), Cls({"0", "1"})>>),
               Cat(<<Cls({"1", "2"}), Cls(Digit)>>),
               Cat(<<Lit(<<"0">>), Cls(Digit \ {"0"})>>),
               Cls(Digit \ {"0"}),
               Cat(<<Lit(<<" ">>), Cls(Digit \ {"0"})>>)>>)
    [] d = "m" ->
         Alt(<<Cat(<<Lit(<<"1">>), Cls({"0", "1", "2"})>>),
               Cat(<<Lit(<<"0">>), Cls(Digit \ {"0"})>>),
               Cls(Digit \ {"0"})>>)
    [] d = "Y" -> Cat(<<Cls(Digit), Cls(Digit), Cls(Digit), Cls(Digit)>>)
    [] d = "B" -> Alt([k \in 1..12 |-> Lit(MonthNames[k])])
    [] d = "b" -> Alt([k \in 1..12 |-> Lit(MonthAbbrs[k])])
    [] d = " " -> Plus(Cls(Space))
    [] d = "-" -> Lit(<<"-">>)
    [] d = "/" -> Lit(<<"/">>)

\* the formats tried by parse_date, directive by directive
DateFormats ==
  << <<"d", " ", "B">>, <<"d", " ", "b">>, <<"B", " ", "d">>, <<"b", " ", "d">>,
     <<"Y", "-", "m", "-", "d">>, <<"d", "/", "m", "/", "Y">> >>

\* first[k, i]: the end positions of the directives of fmt from the k-th on,
\* along the first way the engine matches them from position i; <<0>> when
\* there is none
FirstPath(fmt, s) ==
  LET first[a \in (1..(Len(fmt) + 1)) \X (1..(Len(s) + 1))] ==
        IF a[1] > Len(fmt) THEN <<>>
        ELSE Strict(M(DirectiveRe(fmt[a[1]]), s, a[2]), LAMBDA ends :
               Strict(FirstSuch(Len(ends), LAMBDA n : first[<<a[1] + 1, ends[n]>>] # <<0>>),
                      LAMBDA n :
                 IF n = 0 THEN <<0>>
                 ELSE <<ends[n]>> \o first[<<a[1] + 1, ends[n]>>]))
  IN first[<<1, 1>>]

IndexOf(seq, x) == CHOOSE k \in 1..Len(seq) : seq[k] = x

FieldValue(d, str) ==
  CASE d = "B" -> IndexOf(MonthNames, str)
    [] d = "b" -> IndexOf(MonthAbbrs, str)
    [] OTHER -> DigitsValue(Remove(str, " "))

\* datetime.strptime(matched_str, fmt).  The format must match at the start
\* and leave nothing unconverted; a field the format lacks keeps its default
\* (year 1900); the date must exist.  Otherwise ValueError.
strptime(str, fmt) ==
  Strict(FirstPath(fmt, str), LAMBDA path :
    IF path = <<0>> \/ path[Len(path)] # Len(str) + 1 THEN Raise("ValueError")
    ELSE LET from(k) == IF k = 1 THEN 1 ELSE path[k - 1]
             field(d, default) ==
               IF \E k \in 1..Len(fmt) : fmt[k] = d
               THEN LET k == CHOOSE k \in 1..Len(fmt) : fmt[k] = d
                    IN FieldValue(d, SubSeq(str, from(k), path[k] - 1))
               ELSE default
             month == IF \E k \in 1..Len(fmt) : fmt[k] = "B" THEN field("B", 1)
                      ELSE IF \E k \in 1..Len(fmt) : fmt[k] = "b" THEN field("b", 1)
                      ELSE field("m", 1)
         IN Strict(<<field("Y", 1900), month, field("d", 1)>>, LAMBDA ymd :
              IF IsValidDate(ymd[1], ymd[2], ymd[3])
              THEN Return([year |-> ymd[1], month |-> ymd[2], day |-> ymd[3]])
              ELSE Raise("ValueError")))

\* parsed_date.replace(year=y)
replace_year(date, y) ==
  IF IsValidDate(y, date.month, date.day)
  THEN Return([date EXCEPT !.year = y])
  ELSE Raise("ValueError")

\* ------------------------------------------------------------------------
\* TransactionParser.parse_date
\* ------------------------------------------------------------------------
\* DATE_KEYWORDS with "today" a day off
DATE_KEYWORDS_TodayShifted ==
  << <<<<"t", "o", "d", "a", "y">>, -1>>, <<<<"y", "e", "s", "t", "e", "r", "d", "a", "y">>, -1>>, <<<<"t", "o", "m", "o", "r", "r", "o", "w">>, 1>>, <<<<"n", "o", "w">>, 0>>,
     <<<<"t", "o", "d", "a", "y", " ", "m", "o", "r", "n", "i", "n", "g">>, 0>>, <<<<"l", "a", "s", "t", " ", "n", "i", "g", "h", "t">>, -1>> >>

\* DATE_KEYWORDS, in the order the dict is written and iterated
DATE_KEYWORDS ==
  << <<<<"t", "o", "d", "a", "y">>, 0>>, <<<<"y", "e", "s", "t", "e", "r", "d", "a", "y">>, -1>>, <<<<"t", "o", "m", "o", "r", "r", "o", "w">>, 1>>, <<<<"n", "o", "w">>, 0>>,
     <<<<"t", "o", "d", "a", "y", " ", "m", "o", "r", "n", "i", "n", "g">>, 0>>, <<<<"l", "a", "s", "t", " ", "n", "i", "g", "h", "t">>, -1>> >>

\* Python's `w in s` for strings
Contains(s, w) ==
  \E i \in 1..(Len(s) - Len(w) + 1) : SubSeq(s, i, i + Len(w) - 1) = w

date_patterns ==
  << Cat(<<Rep(Cls(Digit), 1, 2, TRUE), Plus(Cls(Space)), Rep(Cls(LowerLetter), 3, 9, TRUE)>>),
     Cat(<<Rep(Cls(LowerLetter), 3, 9, TRUE), Plus(Cls(Space)), Rep(Cls(Digit), 1, 2, TRUE)>>),
     Cat(<<Rep(Cls(Digit), 4, 4, TRUE), Lit(<<"-">>), Rep(Cls(Digit), 1, 2, TRUE),
           Lit(<<"-">>), Rep(Cls(Digit), 1, 2, TRUE)>>),
     Cat(<<Rep(Cls(Digit), 1, 2, TRUE), Lit(<<"/">>), Rep(Cls(Digit), 1, 2, TRUE),
           Lit(<<"/">>), Rep(Cls(Digit), 4, 4, TRUE)>>) >>

\* the body of the inner try for format k: strptime, then the current year
\* in place of 1900
TryFormat(matched_str, k, now) ==
  Strict(strptime(matched_str, DateFormats[k]), LAMBDA parsed_date :
    IF parsed_date.kind = "raise" THEN parsed_date
    ELSE IF parsed_date.value.year = 1900
    THEN replace_year(parsed_date.value, now.year)
    ELSE parsed_date)

\* the loop over the formats from the k-th on: the first format whose try
\* body ends without ValueError returns its date; Return(None) stands for
\* the loop running out
FormatLoop(matched_str, from, now) ==
  LET loop[k \in from..(Len(DateFormats) + 1)] ==
        IF k > Len(DateFormats) THEN Return(None)
        ELSE IF TryFormat(matched_str, k, now) = Raise("ValueError") THEN loop[k + 1]
        ELSE IF TryFormat(matched_str, k, now).kind = "raise"
        THEN TryFormat(matched_str, k, now)
        ELSE Return(Some(TryFormat(matched_str, k, now).value))
  IN loop[from]

\* what the body of the loop over date_patterns does with pattern k: the
\* first match of the pattern is tried with every format; Return(None) when
\* the pattern does not match, when no format parses the match or when the
\* outer try catches an Exception
DatePatternTry(text_lower, k, now) ==
  Strict(search(Empty, date_patterns[k], Empty, text_lower), LAMBDA match :
    IF match.found
    THEN Strict(group0(match, text_lower), LAMBDA matched_str :
           Strict(FormatLoop(matched_str, 1, now), LAMBDA d :
             IF d.kind = "return" THEN d ELSE Return(None)))
    ELSE Return(None))

\* DatePatternLoop that stops at the first pattern that matches, whether or
\* not a format parses the match
DatePatternLoop_FirstMatchOnly(text_lower, from, now) ==
  LET loop[k \in from..(Len(date_patterns) + 1)] ==
        IF k > Len(date_patterns) THEN Return(None)
        ELSE IF ~search(Empty, date_patterns[k], Empty, text_lower).found THEN loop[k + 1]
        ELSE DatePatternTry(text_lower, k, now)
  IN loop[from]

\* the loop over date_patterns from the k-th on
DatePatternLoop(text_lower, from, now) ==
  LET loop[k \in from..(Len(date_patterns) + 1)] ==
        IF k > Len(date_patterns) THEN Return(None)
        ELSE IF DatePatternTry(text_lower, k, now).value = None THEN loop[k + 1]
        ELSE DatePatternTry(text_lower, k, now)
  IN loop[from]

\* DateKeywordLoop that consults the absolute-date grammars before the
\* keywords
DateKeywordLoop_GrammarsFirst(text_lower, from, now) ==
  LET loop[k \in from..(Len(DATE_KEYWORDS) + 1)] ==
        IF k > Len(DATE_KEYWORDS) THEN Return(None)
        ELSE IF Contains(text_lower, DATE_KEYWORDS[k][1])
             THEN Return(Some(AddDays(now, DATE_KEYWORDS[k][2])))
             ELSE loop[k + 1]
  IN IF DatePatternLoop(text_lower, 1, now).value # None
     THEN DatePatternLoop(text_lower, 1, now)
     ELSE loop[from]

\* the loop over DATE_KEYWORDS from the k-th on
DateKeywordLoop(text_lower, from, now) ==
  LET loop[k \in from..(Len(DATE_KEYWORDS) + 1)] ==
        IF k > Len(DATE_KEYWORDS) THEN DatePatternLoop(text_lower, 1, now)
        ELSE IF Contains(text_lower, DATE_KEYWORDS[k][1])
             THEN Return(Some(AddDays(now, DATE_KEYWORDS[k][2])))
             ELSE loop[k + 1]
  IN loop[from]

\* now is the reading of datetime.now() (its date; the time of day is dropped
\* by parse when it formats the result)
parse_date(text, now) ==
  Strict(lower(text), LAMBDA text_lower : DateKeywordLoop(text_lower, 1, now))

\* ------------------------------------------------------------------------
\* TransactionParser.detect_type
\* ------------------------------------------------------------------------
\* EXPENSE_KEYWORDS, as written ("charged" is written twice; a set holds it once)
EXPENSE_KEYWORDS ==
  <<<<"s", "p", "e", "n", "t">>, <<"p", "a", "i", "d">>, <<"b", "o", "u", "g", "h", "t">>, <<"p", "u", "r", "c", "h", "a", "s", "e", "d">>, <<"c", "h", "a", "r", "g", "e", "d">>, <<"c", "o", "s", "t">>,
    <<"e", "x", "p", "e", "n", "s", "e">>, <<"s", "p", "e", "n", "t", " ", "m", "o", "n", "e", "y", " ", "o", "n">>, <<"s", "p", "e", "n", "t", " ", "o", "n">>, <<"p", "a", "i", "d", " ", "f", "o", "r">>, <<"a", "d", "d", " ", "e", "x", "p", "e", "n", "s", "e">>,
    <<"d", "e", "b", "i", "t">>, <<"o", "u", "t">>, <<"e", "a", "t", "i", "n", "g">>, <<"e", "a", "t">>, <<"a", "t", "e">>, <<"d", "e", "l", "i", "v", "e", "r", "y">>>>

\* INCOME_KEYWORDS, as written
INCOME_KEYWORDS ==
  <<<<"e", "a", "r", "n", "e", "d">>, <<"r", "e", "c", "e", "i", "v", "e", "d">>, <<"g", "o", "t">>, <<"i", "n", "c", "o", "m", "e">>, <<"s", "a", "l", "a", "r", "y">>, <<"b", "o", "n", "u", "s">>,
    <<"r", "e", "f", "u", "n", "d">>, <<"c", "r", "e", "d", "i", "t", "e", "d">>, <<"c", "r", "e", "d", "i", "t">>, <<"e", "a", "r", "n", "i", "n", "g">>, <<"e", "a", "r", "n">>, <<"p", "a", "y", "m", "e", "n", "t", " ", "r", "e", "c", "e", "i", "v", "e", "d">>,
    <<"t", "r", "a", "n", "s", "f", "e", "r", "r", "e", "d", " ", "i", "n">>, <<"d", "e", "p", "o", "s", "i", "t">>, <<"d", "e", "p", "o", "s", "i", "t", "e", "d">>, <<"a", "d", "d", "e", "d">>, <<"r", "e", "c", "e", "i", "v", "e", "d", " ", "m", "o", "n", "e", "y">>>>

Range(seq) == {seq[k] : k \in 1..Len(seq)}

\* detect_type with the two loops in the other order: expense keywords first
detect_type_ExpenseFirst(text) ==
  Strict(lower(text), LAMBDA text_lower :
    IF \E keyword \in Range(EXPENSE_KEYWORDS) : Contains(text_lower, keyword)
    THEN "EXPENSE"
    ELSE IF \E keyword \in Range(INCOME_KEYWORDS) : Contains(text_lower, keyword)
    THEN "INCOME"
    ELSE "EXPENSE")

detect_type(text) ==
  Strict(lower(text), LAMBDA text_lower :
    IF \E keyword \in Range(INCOME_KEYWORDS) : Contains(text_lower, keyword)
    THEN "INCOME"
    ELSE "EXPENSE")

\* ------------------------------------------------------------------------
\* TransactionParser.extract_category_hint
\* ------------------------------------------------------------------------
\* ([a-z\s&]+?)
HintWords == LazyPlus(Cls(LowerLetter \cup Space \cup {"&"}))

DayWords == <<Lit(<<"t", "o", "d", "a", "y">>), Lit(<<"y", "e", "s", "t", "e", "r", "d", "a", "y">>), Lit(<<"t", "o", "m", "o", "r", "r", "o", "w">>)>>

\* each pattern as <<before the group, group 1, after the group>>
hint_patterns ==
  << <<Cat(<<Lit(<<"f", "o", "r">>), Plus(Cls(Space)), Opt(Cat(<<Lit(<<"a">>), Plus(Cls(Space))>>))>>),
       HintWords,
       Alt(<<Cat(<<Plus(Cls(Space)), Alt(DayWords \o <<Lit(<<"o", "n">>), Lit(<<"a", "t">>)>>)>>), Eos>>)>>,
     <<Cat(<<Lit(<<"o", "n">>), Plus(Cls(Space))>>),
       HintWords,
       Alt(<<Cat(<<Plus(Cls(Space)), Alt(DayWords)>>), Eos>>)>>,
     <<Cat(<<Alt(<<Lit(<<"a", "t">>), Lit(<<"i", "n">>)>>), Plus(Cls(Space))>>),
       HintWords,
       Alt(<<Cat(<<Plus(Cls(Space)), Alt(DayWords)>>), Eos>>)>>,
     <<Cat(<<Alt(<<Lit(<<"b", "o", "u", "g", "h", "t">>), Lit(<<"s", "p", "e", "n", "t">>), Lit(<<"p", "a", "i", "d">>)>>), Plus(Cls(Space)),
             Opt(Alt(<<Lit(<<"a">>), Lit(<<"a", "n">>)>>)), Plus(Cls(Space))>>),
       HintWords,
       Alt(<<Cat(<<Plus(Cls(Space)), Alt(<<Lit(<<"f", "o", "r">>), Lit(<<"o", "n">>), Lit(<<"a", "t">>)>>)>>), Eos>>)>> >>

\* str.strip()
strip(str) ==
  Strict(str, LAMBDA s :
    Strict({i \in 1..Len(s) : s[i] \notin Space}, LAMBDA kept :
      IF kept = {} THEN <<>>
      ELSE SubSeq(s, Least(kept), CHOOSE i \in kept : \A j \in kept : i >= j)))

\* HintTry that accepts a hint of one character
HintTry_OneCharacter(text_lower, k) ==
  Strict(search(hint_patterns[k][1], hint_patterns[k][2], hint_patterns[k][3],
                text_lower), LAMBDA match :
    IF match.found
    THEN Strict(strip(group1(match, text_lower)), LAMBDA hint :
           IF hint # <<>> THEN Some(hint) ELSE None)
    ELSE None)

\* what the body of the for loop of extract_category_hint does with pattern
\* k: the hint, or None to go on with the next pattern
HintTry(text_lower, k) ==
  Strict(search(hint_patterns[k][1], hint_patterns[k][2], hint_patterns[k][3],
                text_lower), LAMBDA match :
    IF match.found
    THEN Strict(strip(group1(match, text_lower)), LAMBDA hint :
           IF hint # <<>> /\ Len(hint) > 1 THEN Some(hint) ELSE None)
    ELSE None)

\* the for loop of extract_category_hint from pattern k on
HintLoop(text_lower, from) ==
  LET loop[k \in from..(Len(hint_patterns) + 1)] ==
        IF k > Len(hint_patterns) THEN None
        ELSE IF HintTry(text_lower, k) = None THEN loop[k + 1]
        ELSE HintTry(text_lower, k)
  IN loop[from]

extract_category_hint(text) ==
  Strict(lower(text), LAMBDA text_lower : HintLoop(text_lower, 1))

\* ------------------------------------------------------------------------
\* TransactionParser.extract_description
\* ------------------------------------------------------------------------
Placeholder == <<"T", "r", "a", "n", "s", "a", "c", "t", "i", "o", "n">>

\* [₹$€£¥]\s*[0-9,]+(?:\.[0-9]{2})?
GlyphAmountRe == Cat(<<Cls(Glyph), Star(Cls(Space)), NumberRe>>)

\* (?:today|yesterday|tomorrow|now|morning|night)
DateWordRe ==
  Alt(DayWords \o <<Lit(<<"n", "o", "w">>), Lit(<<"m", "o", "r", "n", "i", "n", "g">>), Lit(<<"n", "i", "g", "h", "t">>)>>)

\* \d{1,2}\s+(?:Jan|Feb|Mar|Apr|May|Jun|Jul|Aug|Sep|Oct|Nov|Dec)
DayMonthRe ==
  Cat(<<Rep(Cls(Digit), 1, 2, TRUE), Plus(Cls(Space)),
        Alt(<<Lit(<<"J", "a", "n">>), Lit(<<"F", "e", "b">>), Lit(<<"M", "a", "r">>), Lit(<<"A", "p", "r">>), Lit(<<"M", "a", "y">>),
              Lit(<<"J", "u", "n">>), Lit(<<"J", "u", "l">>), Lit(<<"A", "u", "g">>), Lit(<<"S", "e", "p">>), Lit(<<"O", "c", "t">>),
              Lit(<<"N", "o", "v">>), Lit(<<"D", "e", "c">>)>>)>>)

\* \b(for|on|at|in|to|from)\b
PrepositionRe ==
  Cat(<<Wb, Alt(<<Lit(<<"f", "o", "r">>), Lit(<<"o", "n">>), Lit(<<"a", "t">>), Lit(<<"i", "n">>), Lit(<<"t", "o">>),
                  Lit(<<"f", "r", "o", "m">>)>>), Wb>>)

\* rf'\b{keyword}\b'
KeywordRe(keyword) == Cat(<<Wb, Lit(keyword), Wb>>)

\* The loop that removes the transaction type keywords, in the order of
\* keywords.  re.sub changes nothing when the keyword does not occur in the
\* text, and cutting a keyword out between two word boundaries brings no
\* other keyword into the text, so the rounds that count are those of the
\* keywords that occur in the text the loop starts with: d[k] is the
\* description after the first k of them.
RemoveKeywords(description, keywords) ==
  Strict(description, LAMBDA d0 :
    Strict(lower(d0), LAMBDA l0 :
      Strict(SelectSeq(keywords, LAMBDA keyword : Contains(l0, keyword)), LAMBDA present :
        LET d[k \in 0..Len(present)] ==
              IF k = 0 THEN d0
              ELSE subIgnoreCase(KeywordRe(present[k]), d[k - 1])
        IN d[Len(present)])))

\* re.sub(r'\s+', " ", s): of a run of white space the first character stays
CollapseSpaces(str) ==
  Strict(str, LAMBDA s :
    SelectIndex(s, LAMBDA n : ~(s[n] \in Space /\ n > 1 /\ s[n - 1] \in Space)))

\* what is left of the text once the amounts, the dates, the keywords and
\* the prepositions are cut out and the white space is tidied
CleanedText(text, keywords) ==
  strip(CollapseSpaces(subIgnoreCase(PrepositionRe,
    RemoveKeywords(sub(DayMonthRe, sub(DateWordRe, sub(NumberRe,
      sub(GlyphAmountRe, text)))), keywords))))

\* extract_description without the final `or "Transaction"`
extract_description_NoPlaceholder(text, category_hint, keywords) ==
  Strict(CleanedText(text, keywords), LAMBDA description :
    IF description = <<>> /\ category_hint # None /\ ValueOf(category_hint) # <<>>
    THEN ValueOf(category_hint)
    ELSE description)

\* keywords is list(EXPENSE_KEYWORDS) + list(INCOME_KEYWORDS): the two sets in
\* the order this process iterates them
extract_description(text, category_hint, keywords) ==
  Strict(CleanedText(text, keywords), LAMBDA description :
    IF description = <<>> /\ category_hint # None /\ ValueOf(category_hint) # <<>>
    THEN ValueOf(category_hint)
    ELSE IF description # <<>> THEN description ELSE Placeholder)

\* ------------------------------------------------------------------------
\* TransactionParser.parse
\* ------------------------------------------------------------------------
\* Score with the weights of the hint and of the date exchanged
Score_WeightsSwapped(amount, category_hint, transaction_date, description) ==
  (IF amount # None /\ ValueOf(amount) # 0 THEN 4 ELSE 0)
  + (IF category_hint # None /\ ValueOf(category_hint) # <<>> THEN 2 ELSE 0)
  + (IF transaction_date # None THEN 3 ELSE 0)
  + (IF description # <<>> /\ description # Placeholder THEN 1 ELSE 0)

\* the weights of the confidence score, in tenths
Score(amount, category_hint, transaction_date, description) ==
  (IF amount # None /\ ValueOf(amount) # 0 THEN 4 ELSE 0)
  + (IF category_hint # None /\ ValueOf(category_hint) # <<>> THEN 3 ELSE 0)
  + (IF transaction_date # None THEN 2 ELSE 0)
  + (IF description # <<>> /\ description # Placeholder THEN 1 ELSE 0)

Min(a, b) == IF a <= b THEN a ELSE b

\* Clamp with the cap read as one tenth
Clamp_OneTenth(confidence) == Min(confidence, 1)

\* min(confidence, 1.0), in tenths
Clamp(confidence) == Min(confidence, 10)

\* Clarification without the else branch: the threshold alone decides
Clarification_ThresholdOnly(amount, confidence) == confidence < 5

\* confidence < 0.5 if amount else True
Clarification(amount, confidence) ==
  IF amount # None /\ ValueOf(amount) # 0 THEN confidence < 5 ELSE TRUE

\* Assemble with the input kept in lower case
Assemble_LowerInput(text, amount, transaction_date, transaction_type, category_hint, description) ==
  LET confidence == Score(amount, category_hint, transaction_date, description)
  IN [action |-> "CREATE",
      original_input |-> lower(text),
      amount |-> amount,
      category_hint |-> category_hint,
      type |-> transaction_type,
      description |-> description,
      transaction_date |-> IF transaction_date # None
                           THEN Some(isoformat(ValueOf(transaction_date)))
                           ELSE None,
      payment_method |-> None,
      confidence |-> Clamp(confidence),
      clarification_needed |-> Clarification(amount, confidence)]

\* the record parse assembles from the five extractions
Assemble(text, amount, transaction_date, transaction_type, category_hint, description) ==
  LET confidence == Score(amount, category_hint, transaction_date, description)
  IN [action |-> "CREATE",
      original_input |-> text,
      amount |-> amount,
      category_hint |-> category_hint,
      type |-> transaction_type,
      description |-> description,
      transaction_date |-> IF transaction_date # None
                           THEN Some(isoformat(ValueOf(transaction_date)))
                           ELSE None,
      payment_method |-> None,
      confidence |-> Clamp(confidence),
      clarification_needed |-> Clarification(amount, confidence)]

\* parse(text) when datetime.now() reads now and the keyword sets iterate in
\* the order keywords.  Amounts are in hundredths, confidence in tenths.
\* parse has no try: an exception of an extractor leaves parse.
parse(text, now, keywords) ==
  Strict(parse_amount(text), LAMBDA amount :
    IF amount.kind = "raise" THEN amount
    ELSE Strict(parse_date(text, now), LAMBDA transaction_date :
      IF transaction_date.kind = "raise" THEN transaction_date
      ELSE Strict(extract_category_hint(text), LAMBDA category_hint :
        Strict(extract_description(text, category_hint, keywords), LAMBDA description :
          Return(Assemble(text, amount.value, transaction_date.value, detect_type(text),
                          category_hint, description))))))

\* ------------------------------------------------------------------------
\* The parser as a state machine: one call of TransactionParser.parse
\* ------------------------------------------------------------------------
VARIABLES
  text,          \* the input string of the call
  now,           \* what datetime.now() reads during the call
  keywordOrder,  \* list(EXPENSE_KEYWORDS) + list(INCOME_KEYWORDS) in this process
  pc,            \* "call" before the call has run, "done" after
  result,        \* how the call of parse ended: Return(record) or Raise(exception)
  previous,      \* how the call before it ended, when parse is called a second time
  requests_list, \* the requests posted to the service
  endpoint,      \* which entry point has handled them
  calls,         \* per request: what its processing parsed, sent and how it ended
  response,      \* what the entry point returned
  threads        \* per concurrent call of parse: its input, position and locals

vars == <<text, now, keywordOrder, pc, result, previous, requests_list, endpoint, calls, response,
          threads>>

Reverse(seq) == [k \in 1..Len(seq) |-> seq[Len(seq) + 1 - k]]

\* Iteration orders of the two keyword sets.  A set of str iterates in an
\* order fixed by the hash seed of the process; two orders are explored: the
\* single words before the phrases that contain them, and after them.
KeywordOrders ==
  {EXPENSE_KEYWORDS \o INCOME_KEYWORDS,
   Reverse(EXPENSE_KEYWORDS) \o Reverse(INCOME_KEYWORDS)}

\* Clock readings: a last day of the year and a first day of a month
Clocks ==
  {[year |-> 2024, month |-> 12, day |-> 31], [year |-> 2023, month |-> 3, day |-> 1]}

\* the longest input, in words
MaxWords == 3

Words ==
  {<<"P", "a", "i", "d">>, <<"r", "e", "c", "e", "i", "v", "e", "d">>, <<"₹", "1", "2", "0", "0">>, <<"f", "o", "r">>, <<"l", "u", "n", "c", "h">>, <<"t", "o", "d", "a", "y">>}

\* the inputs of the examples of the documentation and of the test scripts
Examples ==
  {<<"A", "d", "d", " ", "₹", "1", "2", "0", "0", " ", "f", "o", "r", " ", "g", "r", "o", "c", "e", "r", "i", "e", "s", " ", "t", "o", "d", "a", "y">>, <<"R", "e", "c", "e", "i", "v", "e", "d", " ", "₹", "3", "0", "0", "0", "0", " ", "s", "a", "l", "a", "r", "y">>, <<"P", "a", "i", "d", " ", "$", "5", "0", " ", "o", "n", " ", "b", "o", "o", "k", "s">>,
   <<"S", "p", "e", "n", "t", " ", "$", "5", "0", " ", "o", "n", " ", "b", "o", "o", "k", "s">>, <<"P", "a", "i", "d", " ", "₹", "2", "0", "0", "0", " ", "f", "o", "r", " ", "g", "y", "m">>, <<"A", "d", "d", "e", "d", " ", "€", "1", "0", "0", " ", "f", "o", "r", " ", "d", "i", "n", "n", "e", "r", " ", "y", "e", "s", "t", "e", "r", "d", "a", "y">>}

\* the words joined by single blanks
RECURSIVE Join(_)
Join(ws) ==
  IF ws = <<>> THEN <<>>
  ELSE IF Len(ws) = 1 THEN ws[1]
  ELSE ws[1] \o <<" ">> \o Join(Tail(ws))

WordTexts == UNION {{Join(ws) : ws \in [1..n -> Words]} : n \in 0..MaxWords}

\* Inputs made of a verb, an amount behind a glyph, "for" and a word, and
\* "today": the example of the documentation and its like
Verbs == {<<"A", "d", "d">>, <<"P", "a", "i", "d">>, <<"B", "o", "u", "g", "h", "t">>}

GlyphAmounts == {[written |-> <<"₹", "1", "2", "0", "0">>, hundredths |-> 120000],
                 [written |-> <<"$", "5", "0">>, hundredths |-> 5000]}

ForWords == {<<"g", "r", "o", "c", "e", "r", "i", "e", "s">>, <<"l", "u", "n", "c", "h">>}

VerbAmountForToday(verb, amount, word) ==
  Join(<<verb, amount.written, <<"f", "o", "r">>, word, <<"t", "o", "d", "a", "y">>>>)

VerbAmountForTodayTexts ==
  {VerbAmountForToday(v, a, w) : v \in Verbs, a \in GlyphAmounts, w \in ForWords}

\* inputs in which the text the amount patterns capture is not a number, and
\* a date written with the name of a month
Corners ==
  {<<",">>, <<"P", "a", "i", "d", " ", ",">>, <<"₹", ",">>, <<",", " ", "t", "o", "d", "a", "y">>, <<"1", "5", " ", "J", "a", "n">>}

\* inputs with a keyword of several words that holds a keyword of one word
KeywordPhraseTexts ==
  {<<"a", "d", "d", " ", "e", "x", "p", "e", "n", "s", "e", " ", "5", "0">>, <<"p", "a", "y", "m", "e", "n", "t", " ", "r", "e", "c", "e", "i", "v", "e", "d">>, <<"r", "e", "c", "e", "i", "v", "e", "d", " ", "m", "o", "n", "e", "y">>, <<"s", "p", "e", "n", "t", " ", "m", "o", "n", "e", "y", " ", "o", "n", " ", "f", "o", "o", "d">>}

Texts ==
  WordTexts \cup Examples \cup Corners \cup VerbAmountForTodayTexts \cup KeywordPhraseTexts

NoResult == [kind |-> "none"]

\* parse is called on its own: no call came before, no request is posted,
\* no other call runs
NoRequests ==
  /\ previous = NoResult
  /\ requests_list = <<>>
  /\ endpoint = "none"
  /\ calls = <<>>
  /\ response = NoResult
  /\ threads = <<>>

Init ==
  /\ text \in Texts
  /\ now \in Clocks
  /\ keywordOrder \in KeywordOrders
  /\ pc = "call"
  /\ result = NoResult
  /\ NoRequests

\* result = TransactionParser.parse(text)
Parse ==
  /\ pc = "call"
  /\ result' = parse(text, now, keywordOrder)
  /\ pc' = "done"
  /\ UNCHANGED <<text, now, keywordOrder, previous, requests_list, endpoint, calls, response, threads>>

Next == Parse

Spec == Init /\ [][Next]_vars

\* result = TransactionParser.parse(result["original_input"]): the input
\* kept in the record of a first call is parsed again, under the same clock
Reparse ==
  /\ pc = "done"
  /\ result.kind = "return"
  /\ previous = NoResult
  /\ previous' = result
  /\ text' = result.value.original_input
  /\ result' = parse(result.value.original_input, now, keywordOrder)
  /\ UNCHANGED <<now, keywordOrder, pc, requests_list, endpoint, calls, response, threads>>

NextReparse == Parse \/ Reparse

SpecReparse == Init /\ [][NextReparse]_vars

\* ------------------------------------------------------------------------
\* Properties of the record parse returns
\* ------------------------------------------------------------------------
Returned == pc = "done" /\ result.kind = "return"

\* C1: in the returned record clarification_needed is true whenever amount is
\* absent; when amount is present, clarification_needed is true exactly when
\* confidence < 0.5
C1_ClarificationFlag ==
  Returned =>
    LET r == result.value
    IN /\ r.amount = None => r.clarification_needed
       /\ r.amount # None => (r.clarification_needed <=> r.confidence < 5)

\* an amount-less record whose confidence is 0.5 or more still asks for
\* clarification
C1_Witness ==
  /\ Returned
  /\ result.value.amount = None
  /\ result.value.confidence >= 5
  /\ result.value.clarification_needed

\* C2: confidence is 0.4 for an amount, plus 0.3 for a category hint, plus 0.2
\* for a date, plus 0.1 for a description other than "Transaction", capped at
\* 1.0, and so lies in [0.0, 1.0]
C2_ConfidenceSum ==
  Returned =>
    LET r == result.value
        sum == (IF r.amount # None THEN 4 ELSE 0)
               + (IF r.category_hint # None THEN 3 ELSE 0)
               + (IF r.transaction_date # None THEN 2 ELSE 0)
               + (IF r.description # Placeholder THEN 1 ELSE 0)
    IN /\ r.confidence = (IF sum > 10 THEN 10 ELSE sum)
       /\ r.confidence >= 0
       /\ r.confidence <= 10

\* a record with a hint and a date but no amount: 0.3 + 0.2 + 0.1
C2_Witness ==
  /\ Returned
  /\ result.value.amount = None
  /\ result.value.category_hint # None
  /\ result.value.transaction_date # None
  /\ result.value.confidence = 6

\* C4: parse is total: every call returns a record, none raises
C4_ParseIsTotal == pc = "done" => result.kind = "return"

\* the only candidate for the amount is a lone comma, which float rejects,
\* and parse has returned
C4_Witness ==
  /\ Returned
  /\ text = <<",">>
  /\ result.value.amount = None

\* some income keyword is a substring of the lower-cased text
HasIncomeKeyword(s) ==
  Strict(lower(s), LAMBDA l :
    \E i \in 1..Len(l) : \E j \in i..Len(l) :
      \E k \in 1..Len(INCOME_KEYWORDS) : SubSeq(l, i, j) = INCOME_KEYWORDS[k])

HasExpenseKeyword(s) ==
  Strict(lower(s), LAMBDA l :
    \E i \in 1..Len(l) : \E j \in i..Len(l) :
      \E k \in 1..Len(EXPENSE_KEYWORDS) : SubSeq(l, i, j) = EXPENSE_KEYWORDS[k])

\* C9: the type is INCOME exactly when the lower-cased text contains an income
\* keyword, whether or not it contains an expense keyword; otherwise it is
\* EXPENSE
C9_IncomeWins ==
  Returned =>
    /\ result.value.type \in {"INCOME", "EXPENSE"}
    /\ result.value.type = "INCOME" <=> HasIncomeKeyword(text)

\* a text with an expense keyword and an income keyword is typed INCOME
C9_Witness ==
  /\ Returned
  /\ HasExpenseKeyword(text)
  /\ HasIncomeKeyword(text)
  /\ result.value.type = "INCOME"

\* C10: parse("") returns no amount, no category hint, no date, type EXPENSE,
\* description "Transaction", confidence 0.0 and clarification_needed = true
C10_EmptyInput ==
  (pc = "done" /\ text = <<>>) =>
    /\ result.kind = "return"
    /\ result.value.amount = None
    /\ result.value.category_hint = None
    /\ result.value.transaction_date = None
    /\ result.value.type = "EXPENSE"
    /\ result.value.description = Placeholder
    /\ result.value.confidence = 0
    /\ result.value.clarification_needed

\* the empty string has been parsed
C10_Witness == pc = "done" /\ text = <<>> /\ result.kind = "return"

\* ------------------------------------------------------------------------
\* parse on inputs written character by character: amounts
\* ------------------------------------------------------------------------
\* the longest such input, in pieces
MaxAmountPieces == 4

AmountPieces == {"$", "0", "5", ".", ",", " "}

AmountTexts == UNION {[1..n -> AmountPieces] : n \in 0..MaxAmountPieces}

\* Inputs with several numbers, each written in the form one pattern looks
\* for: behind a glyph (pattern 1), before a currency code (2), after "of"
\* (3), bare (4)
NumberForms ==
  {[written |-> <<"₹", "5", "0">>, hundredths |-> 5000, pattern |-> 1],
   [written |-> <<"2", "0", " ", "U", "S", "D">>, hundredths |-> 2000, pattern |-> 2],
   [written |-> <<"o", "f", " ", "7">>, hundredths |-> 700, pattern |-> 3],
   [written |-> <<"3">>, hundredths |-> 300, pattern |-> 4]}

\* the most numbers in such an input
MaxNumbers == 3

\* the ways to write two or more of them one after the other
NumberOrders ==
  UNION {{s \in [1..n -> NumberForms] : \A i, j \in 1..n : s[i] = s[j] => i = j} :
           n \in 2..MaxNumbers}

SeveralNumbers(s) == Join([k \in 1..Len(s) |-> s[k].written])

SeveralNumbersTexts == {SeveralNumbers(s) : s \in NumberOrders}

InitAmount ==
  /\ text \in AmountTexts \cup SeveralNumbersTexts
  /\ now = [year |-> 2024, month |-> 12, day |-> 31]
  /\ keywordOrder = EXPENSE_KEYWORDS \o INCOME_KEYWORDS
  /\ pc = "call"
  /\ result = NoResult
  /\ NoRequests

SpecAmount == InitAmount /\ [][Next]_vars

\* The number written in s from position i on: digits and thousands
\* separators, then possibly a point and one or two decimals.  Its value in
\* hundredths, the separators removed; -1 when no such number starts at i.
WrittenNumber(s, i) ==
  LET n == RunLength(s, i, Digit \cup {","})
      whole == Remove(SubSeq(s, i, i + n - 1), ",")
      m == IF i + n <= Len(s) /\ s[i + n] = "." THEN RunLength(s, i + n + 1, Digit) ELSE 0
      decimals == SubSeq(s, i + n + 1, i + n + m)
  IN IF whole = <<>> \/ m > 2 THEN -1
     ELSE 100 * DigitsValue(whole)
          + (IF m = 1 THEN 10 * DigitsValue(decimals) ELSE DigitsValue(decimals))

\* the positive numbers that immediately follow a currency glyph of s
GlyphNumbers(s) ==
  {WrittenNumber(s, i + 1) : i \in {j \in 1..Len(s) : s[j] \in Glyph}} \ {-1, 0}

\* C3: when a currency glyph of the input is immediately followed by a
\* positive number, the amount of the returned record is that number, its
\* thousands separators removed
C3_GlyphAmount ==
  (Returned /\ GlyphNumbers(text) # {}) =>
    /\ result.value.amount # None
    /\ ValueOf(result.value.amount) \in GlyphNumbers(text)

\* ------------------------------------------------------------------------
\* Python dicts
\* ------------------------------------------------------------------------
\* d[key] = value
SetItem(d, key, value) ==
  [k \in (DOMAIN d) \cup {key} |-> IF k = key THEN value ELSE d[k]]

\* bool(d.get("clarification_needed")) and bool(d.get("amount")): a key the
\* dict lacks reads None, and None, False and 0 are false
GetClarificationNeeded(d) ==
  "clarification_needed" \in DOMAIN d /\ d.clarification_needed = TRUE

GetAmount(d) ==
  "amount" \in DOMAIN d /\ d.amount # None /\ ValueOf(d.amount) # 0

\* d.get("confidence", 0)
GetConfidence(d) == IF "confidence" \in DOMAIN d THEN d.confidence ELSE 0

\* str(e): the text of an exception, kept as the exception it is the text of
str(e) == [str_of |-> e]

\* ------------------------------------------------------------------------
\* LLMService.parse_transaction_text
\* ------------------------------------------------------------------------
\* The arguments the model may pass to the parse_transaction tool: all the
\* properties of the tool, the required ones only, and an amount the model
\* is not sure of.  Amounts are in hundredths, confidence in tenths.
ToolArguments ==
  {[amount |-> Some(120000), category_hint |-> Some(<<"g", "r", "o", "c", "e", "r", "i", "e", "s">>), type |-> "EXPENSE",
    description |-> <<"g", "r", "o", "c", "e", "r", "i", "e", "s">>, transaction_date |-> Some(<<"2", "0", "2", "4", "-", "1", "2", "-", "3", "1">>),
    payment_method |-> Some("UPI"), confidence |-> 9, clarification_needed |-> FALSE],
   [amount |-> Some(120000), category_hint |-> Some(<<"g", "r", "o", "c", "e", "r", "i", "e", "s">>), type |-> "EXPENSE",
    description |-> <<"g", "r", "o", "c", "e", "r", "i", "e", "s">>],
   [amount |-> Some(50000), category_hint |-> None, type |-> "EXPENSE",
    description |-> <<"s", "o", "m", "e", "t", "h", "i", "n", "g">>, transaction_date |-> None,
    payment_method |-> None, confidence |-> 3, clarification_needed |-> TRUE]}

\* What the call of the model yields: a call of the parse_transaction tool,
\* a message without such a call, or an exception (of the client, or of
\* json.loads on the arguments)
Replies ==
  {[kind |-> "tool_call", arguments |-> a] : a \in ToolArguments}
  \cup {[kind |-> "message"], [kind |-> "exception", exc |-> "APIConnectionError"],
        [kind |-> "exception", exc |-> "JSONDecodeError"]}

\* the record of the fallbacks with clarification_needed false
Fallback_NoClarification(input, error) ==
  [action |-> "CREATE",
   original_input |-> input,
   amount |-> None,
   category_hint |-> None,
   type |-> "EXPENSE",
   description |-> input,
   transaction_date |-> None,
   confidence |-> 0,
   clarification_needed |-> FALSE,
   error |-> error]

\* the record of the two fallbacks
Fallback(input, error) ==
  [action |-> "CREATE",
   original_input |-> input,
   amount |-> None,
   category_hint |-> None,
   type |-> "EXPENSE",
   description |-> input,
   transaction_date |-> None,
   confidence |-> 0,
   clarification_needed |-> TRUE,
   error |-> error]

\* parse_transaction_text(text) when the call of the model yields reply
parse_transaction_text(input, reply) ==
  CASE reply.kind = "tool_call" ->
         SetItem(SetItem(reply.arguments, "action", "CREATE"), "original_input", input)
    [] reply.kind = "message" ->
         Fallback(input, "Could not parse transaction with GLM-5")
    [] reply.kind = "exception" ->
         Fallback(input, str(reply.exc))

\* ------------------------------------------------------------------------
\* process_transaction (POST /mcp/process)
\* ------------------------------------------------------------------------
\* What the backend answers to process_mcp_transaction: a JSON body, or the
\* request fails and process_mcp_transaction raises
BackendAnswers ==
  {[kind |-> "json", body |-> [success |-> TRUE, message |-> "Transaction created"]],
   [kind |-> "exception", exc |-> "RequestException"]}

\* What the world does during one call of process_transaction: whether
\* verify_token accepts the token, what the model answers, what the backend
\* answers.  (A rejected token ends the call before the other two matter.)
Worlds ==
  {[token_ok |-> FALSE]}
  \cup {[token_ok |-> TRUE, reply |-> r, backend |-> b] : r \in Replies, b \in BackendAnswers}

HTTPException(status_code, detail) ==
  [type |-> "HTTPException", status_code |-> status_code, detail |-> detail]

JSONResponse(status_code, content) ==
  [status_code |-> status_code, content |-> content]

\* the answer that asks the user for more detail
ClarificationResponse(parsed_data, request) ==
  [success |-> FALSE,
   error |-> "Could not understand transaction details",
   message |-> "Could you please provide more details? For example: 'Add ₹1200 for groceries today'",
   confidence |-> GetConfidence(parsed_data),
   original_input |-> request.input]

\* the answer of the except Exception clause sent with status 200
InternalError_Status200(e, request) ==
  JSONResponse(200, [success |-> FALSE,
                     error |-> "Internal server error",
                     message |-> str(e),
                     original_input |-> request.input])

\* the answer of the except Exception clause
InternalError(e, request) ==
  JSONResponse(500, [success |-> FALSE,
                     error |-> "Internal server error",
                     message |-> str(e),
                     original_input |-> request.input])

\* what a call has done in its world: the record it parsed (None: it did not
\* parse), the record it sent to the backend (None: it sent none), and how
\* it ended
Call(world, parsed, sent, outcome) ==
  [world |-> world, parsed |-> parsed, sent |-> sent, outcome |-> outcome]

\* the clarification check with the test of the amount turned round
NeedsClarification_AmountPresent(parsed_data) ==
  GetClarificationNeeded(parsed_data) /\ GetAmount(parsed_data)

\* parsed_data.get("clarification_needed") and not parsed_data.get("amount")
NeedsClarification(parsed_data) ==
  GetClarificationNeeded(parsed_data) /\ ~GetAmount(parsed_data)

\* process_transaction from the clarification check on
Dispatch(request, parsed_data, world) ==
  IF NeedsClarification(parsed_data)
  THEN Call(world, Some(parsed_data), None, Return(ClarificationResponse(parsed_data, request)))
  ELSE IF world.backend.kind = "json"
  THEN Call(world, Some(parsed_data), Some(parsed_data), Return(world.backend.body))
  ELSE Call(world, Some(parsed_data), Some(parsed_data),
            Return(InternalError(world.backend.exc, request)))

\* process_transaction(request) in the given world; local is how
\* TransactionParser.parse(request.input) ends
process_transaction(request, local, world) ==
  IF ~world.token_ok
  THEN Call(world, None, None, Raise(HTTPException(401, "Invalid or expired token")))
  ELSE IF request.use_llm
  THEN Dispatch(request, parse_transaction_text(request.input, world.reply), world)
  ELSE IF local.kind = "raise"
  THEN Call(world, None, None, Return(InternalError(local.exc, request)))
  ELSE Dispatch(request, local.value, world)

\* http_exception_handler: the answer to a request whose handler raised
\* HTTPException
http_exception_handler(exc) == JSONResponse(exc.status_code, [detail |-> exc.detail])

\* what the client of POST /mcp/process receives
Answer(outcome) ==
  IF outcome.kind = "raise" THEN http_exception_handler(outcome.exc) ELSE outcome.value

\* ------------------------------------------------------------------------
\* batch_process_transactions (POST /mcp/batch-process)
\* ------------------------------------------------------------------------
\* the body of the loop with the list extended at its front
BatchStep_Prepend(results, req, call) ==
  IF call.outcome.kind = "return"
  THEN <<call.outcome.value>> \o results
  ELSE <<[success |-> FALSE, error |-> str(call.outcome.exc), original_input |-> req.input]>>
       \o results

\* the body of the for loop: results after the request req, whose
\* processing was call
BatchStep(results, req, call) ==
  IF call.outcome.kind = "return"
  THEN Append(results, call.outcome.value)
  ELSE Append(results, [success |-> FALSE,
                        error |-> str(call.outcome.exc),
                        original_input |-> req.input])

\* the loop that stops at the first request whose processing raises
batch_process_transactions_Abort(requests, cs) ==
  LET results[k \in 0..Len(requests)] ==
        IF k = 0 THEN <<>>
        ELSE IF \E j \in 1..k : cs[j].outcome.kind = "raise" THEN results[k - 1]
        ELSE BatchStep(results[k - 1], requests[k], cs[k])
  IN [results |-> results[Len(requests)]]

\* batch_process_transactions(requests) when the processing of the k-th
\* request is cs[k]
batch_process_transactions(requests, cs) ==
  LET results[k \in 0..Len(requests)] ==
        IF k = 0 THEN <<>>
        ELSE BatchStep(results[k - 1], requests[k], cs[k])
  IN [results |-> results[Len(requests)]]

\* ------------------------------------------------------------------------
\* LLMService.parse_transaction_batch
\* ------------------------------------------------------------------------
\* parse_transaction_batch(inputs) when the model answers replies[k] to the
\* k-th input
parse_transaction_batch(inputs, replies) ==
  LET results[k \in 0..Len(inputs)] ==
        IF k = 0 THEN <<>>
        ELSE Append(results[k - 1], parse_transaction_text(inputs[k], replies[k]))
  IN results[Len(inputs)]

\* ------------------------------------------------------------------------
\* The service as a state machine: requests are posted, one entry point
\* handles them
\* ------------------------------------------------------------------------
\* the longest batch
MaxBatch == 2

\* inputs of the requests: nothing, an amount alone, and an input of the
\* test script
RequestTextList == <<<<>>, <<"₹", "1", "2", "0", "0">>, <<"P", "a", "i", "d", " ", "₹", "2", "0", "0", "0", " ", "f", "o", "r", " ", "g", "y", "m">>>>

RequestTexts == Range(RequestTextList)

Requests ==
  {[input |-> t, jwt_token |-> "dummy-token", use_llm |-> u] :
     t \in RequestTexts, u \in BOOLEAN}

\* the day of the requests, and the order in which the set of keywords is
\* iterated in the process of the service
ServiceDay == [year |-> 2024, month |-> 12, day |-> 31]

ServiceKeywordOrder == EXPENSE_KEYWORDS \o INCOME_KEYWORDS

InitServer ==
  /\ text = <<>>
  /\ now = ServiceDay
  /\ keywordOrder = ServiceKeywordOrder
  /\ pc = "call"
  /\ result = NoResult
  /\ previous = NoResult
  /\ requests_list \in UNION {[1..n -> Requests] : n \in 0..MaxBatch}
  /\ endpoint = "none"
  /\ calls = <<>>
  /\ response = NoResult
  /\ threads = <<>>

\* how TransactionParser.parse ends on each input of a request, in the
\* process of the service
ParsedRequestTexts ==
  Strict(<<RequestTextList, ServiceDay, ServiceKeywordOrder>>, LAMBDA a :
    MapIndex(Len(a[1]), LAMBDA k : parse(a[1][k], a[2], a[3])))

\* TransactionParser.parse(input) for the input of a request
TransactionParser_parse(input) ==
  ParsedRequestTexts[CHOOSE k \in 1..Len(RequestTextList) : RequestTextList[k] = input]

\* POST /mcp/process with the one request posted
Process ==
  /\ pc = "call"
  /\ Len(requests_list) = 1
  /\ \E local \in {TransactionParser_parse(requests_list[1].input)} :
       \E world \in Worlds :
         \E call \in {process_transaction(requests_list[1], local, world)} :
           /\ calls' = <<call>>
           /\ response' = Answer(call.outcome)
  /\ endpoint' = "process"
  /\ pc' = "done"
  /\ UNCHANGED <<text, now, keywordOrder, result, previous, requests_list, threads>>

\* POST /mcp/batch-process with the requests posted
BatchProcess ==
  /\ pc = "call"
  /\ \E local \in {MapIndex(Len(requests_list), LAMBDA k :
                       TransactionParser_parse(requests_list[k].input))} :
       \E worlds \in [1..Len(requests_list) -> Worlds] :
         \E cs \in {MapIndex(Len(requests_list), LAMBDA k :
                      process_transaction(requests_list[k], local[k], worlds[k]))} :
           /\ calls' = cs
           /\ response' = batch_process_transactions(requests_list, cs)
  /\ endpoint' = "batch-process"
  /\ pc' = "done"
  /\ UNCHANGED <<text, now, keywordOrder, result, previous, requests_list, threads>>

\* llm_service.parse_transaction_batch on the inputs of the requests posted
ParseTransactionBatch ==
  /\ pc = "call"
  /\ \E replies \in [1..Len(requests_list) -> Replies] :
       \E rs \in {parse_transaction_batch(
                    MapIndex(Len(requests_list), LAMBDA k : requests_list[k].input),
                    replies)} :
         /\ calls' = MapIndex(Len(rs), LAMBDA k :
                      Call([reply |-> replies[k]], Some(rs[k]), None, Return(rs[k])))
         /\ response' = rs
  /\ endpoint' = "parse_transaction_batch"
  /\ pc' = "done"
  /\ UNCHANGED <<text, now, keywordOrder, result, previous, requests_list, threads>>

NextServer == Process \/ BatchProcess \/ ParseTransactionBatch

SpecServer == InitServer /\ [][NextServer]_vars

\* ------------------------------------------------------------------------
\* Batch processing and the two parsers behind the service
\* ------------------------------------------------------------------------
BatchDone == pc = "done" /\ endpoint = "batch-process"

LlmBatchDone == pc = "done" /\ endpoint = "parse_transaction_batch"

\* the processing of the i-th request on its own, in the world of its call
OwnCall(i) ==
  process_transaction(requests_list[i], TransactionParser_parse(requests_list[i].input),
                      calls[i].world)

\* the record the batch holds for a request whose processing raised
FailureRecord(i) ==
  [success |-> FALSE,
   error |-> str(OwnCall(i).outcome.exc),
   original_input |-> requests_list[i].input]

\* C5, as stated: batch processing returns one result per input, in input
\* order, and the i-th result equals the result of processing the i-th input
\* on its own (for POST /mcp/batch-process, what POST /mcp/process answers
\* to the i-th request).
C5_BatchEqualsSingle ==
  /\ BatchDone =>
       /\ Len(response.results) = Len(requests_list)
       /\ \A i \in 1..Len(requests_list) :
            response.results[i] = Answer(OwnCall(i).outcome)
  /\ LlmBatchDone =>
       /\ Len(response) = Len(requests_list)
       /\ \A i \in 1..Len(requests_list) :
            response[i] = parse_transaction_text(requests_list[i].input, calls[i].world.reply)

\* C5, amended: batch processing returns one result per input, in input
\* order, and no result depends on the other items.  In
\* batch_process_transactions the i-th result is what process_transaction
\* returns for the i-th request on its own and, when process_transaction
\* raises (the token is rejected), the record {success: false, error,
\* original_input} in place of the 401 answer; in parse_transaction_batch it
\* is what parse_transaction_text returns for the i-th input.
C5_BatchPerItem ==
  /\ BatchDone =>
       /\ Len(response.results) = Len(requests_list)
       /\ \A i \in 1..Len(requests_list) :
            response.results[i] =
              IF OwnCall(i).outcome.kind = "return"
              THEN OwnCall(i).outcome.value
              ELSE FailureRecord(i)
  /\ LlmBatchDone =>
       /\ Len(response) = Len(requests_list)
       /\ \A i \in 1..Len(requests_list) :
            response[i] = parse_transaction_text(requests_list[i].input, calls[i].world.reply)

\* a batch of two different requests: the token of the first is rejected,
\* the second is answered by the backend
C5_Witness ==
  /\ BatchDone
  /\ Len(requests_list) = 2
  /\ requests_list[1] # requests_list[2]
  /\ calls[1].outcome.kind = "raise"
  /\ calls[2].sent # None
  /\ calls[2].world.backend.kind = "json"
  /\ response.results[2] = calls[2].world.backend.body

\* the processing of an item failed: process_transaction raised, the call of
\* the model yielded no parse (the record of a fallback carries "error"), or
\* the request to the backend failed
Failed(call) ==
  \/ call.outcome.kind = "raise"
  \/ call.parsed # None /\ "error" \in DOMAIN ValueOf(call.parsed)
  \/ call.sent # None /\ call.world.backend.kind = "exception"

\* the results of the batch
BatchResults == IF endpoint = "batch-process" THEN response.results ELSE response

\* the body of a result: the content of a JSONResponse, the dict otherwise
Payload(r) == IF "content" \in DOMAIN r THEN r.content ELSE r

\* C6, as stated: a failure of one item never aborts the batch, and the
\* failed item contributes a low-confidence record (with a confidence value
\* and clarification_needed = true) at its own position.
C6_FailedItemLowConfidence ==
  (BatchDone \/ LlmBatchDone) =>
    /\ Len(BatchResults) = Len(requests_list)
    /\ \A i \in 1..Len(requests_list) :
         Failed(calls[i]) =>
           /\ "confidence" \in DOMAIN BatchResults[i]
           /\ "clarification_needed" \in DOMAIN BatchResults[i]
           /\ BatchResults[i].clarification_needed = TRUE

\* C6, amended: a failure of one item never aborts the batch: there is one
\* result per item, and the failed item contributes one record at its own
\* position.  In batch_process_transactions that record has success = false
\* and the original_input of the item (for a raised exception it is exactly
\* {success, error, original_input}); in parse_transaction_batch it is the
\* fallback record, with confidence 0.0 and clarification_needed = true.
C6_FailedItemRecord ==
  /\ BatchDone =>
       /\ Len(response.results) = Len(requests_list)
       /\ \A i \in 1..Len(requests_list) :
            Failed(calls[i]) =>
              /\ Payload(response.results[i]).success = FALSE
              /\ Payload(response.results[i]).original_input = requests_list[i].input
              /\ calls[i].outcome.kind = "raise" =>
                   DOMAIN response.results[i] = {"success", "error", "original_input"}
  /\ LlmBatchDone =>
       /\ Len(response) = Len(requests_list)
       /\ \A i \in 1..Len(requests_list) :
            Failed(calls[i]) =>
              /\ response[i].confidence = 0
              /\ response[i].clarification_needed = TRUE
              /\ response[i].original_input = requests_list[i].input

\* a batch of two: the request to the backend fails for the first item, the
\* second item is processed and the backend creates its transaction
C6_Witness ==
  /\ BatchDone
  /\ Len(requests_list) = 2
  /\ calls[1].sent # None
  /\ calls[1].world.backend.kind = "exception"
  /\ Failed(calls[1])
  /\ ~Failed(calls[2])
  /\ Payload(response.results[2]).success = TRUE

\* the fields of a parsed record
SchemaFields ==
  {"amount", "category_hint", "type", "description", "transaction_date",
   "payment_method", "confidence", "clarification_needed", "action", "original_input"}

\* C7: every record of the local parser and every record of the LLM-backed
\* parser (tool call, no-tool-call fallback, exception fallback) carries
\* exactly the fields amount, category_hint, type, description,
\* transaction_date, payment_method, confidence, clarification_needed,
\* action, original_input.
C7_SameFields ==
  \A i \in 1..Len(calls) :
    calls[i].parsed # None => DOMAIN ValueOf(calls[i].parsed) = SchemaFields

\* C8: whenever the parsed record has clarification_needed = true,
\* process_transaction answers with the request for more detail and does not
\* call process_mcp_transaction.
C8_ClarificationStopsBackend ==
  (pc = "done" /\ endpoint \in {"process", "batch-process"}) =>
    \A i \in 1..Len(calls) :
      (calls[i].parsed # None /\ GetClarificationNeeded(ValueOf(calls[i].parsed))) =>
        /\ calls[i].sent = None
        /\ calls[i].outcome =
             Return(ClarificationResponse(ValueOf(calls[i].parsed), requests_list[i]))

\* C11: an input made of a verb, an amount behind a glyph, "for <word>" and
\* "today" (as "Add ₹1200 for groceries today") parses to that amount, type
\* EXPENSE, the date of the call, and a category hint that contains the word
C11_VerbAmountForToday ==
  \A v \in Verbs, a \in GlyphAmounts, w \in ForWords :
    (pc = "done" /\ text = VerbAmountForToday(v, a, w)) =>
      /\ result.kind = "return"
      /\ result.value.amount = Some(a.hundredths)
      /\ result.value.type = "EXPENSE"
      /\ result.value.transaction_date = Some(isoformat(now))
      /\ result.value.category_hint # None
      /\ Contains(ValueOf(result.value.category_hint), w)

\* the example of the documentation has been parsed on the last day of a
\* year
C11_Witness ==
  /\ Returned
  /\ text = <<"A", "d", "d", " ", "₹", "1", "2", "0", "0", " ", "f", "o", "r", " ", "g", "r", "o", "c", "e", "r", "i", "e", "s", " ", "t", "o", "d", "a", "y">>
  /\ now = [year |-> 2024, month |-> 12, day |-> 31]
  /\ result.value.amount = Some(120000)
  /\ result.value.category_hint = Some(<<"g", "r", "o", "c", "e", "r", "i", "e", "s">>)

\* C12: the record keeps the input character for character, and parsing the
\* original_input of a record again gives the same amount, type and
\* category_hint
C12_ReparseSame ==
  /\ (Returned /\ previous = NoResult) => result.value.original_input = text
  /\ (pc = "done" /\ previous # NoResult) =>
       /\ result.kind = "return"
       /\ result.value.original_input = previous.value.original_input
       /\ result.value.amount = previous.value.amount
       /\ result.value.type = previous.value.type
       /\ result.value.category_hint = previous.value.category_hint

\* an input with capitals, an amount and a hint has been parsed twice
C12_Witness ==
  /\ pc = "done"
  /\ previous # NoResult
  /\ text = <<"P", "a", "i", "d", " ", "₹", "2", "0", "0", "0", " ", "f", "o", "r", " ", "g", "y", "m">>
  /\ result.value.amount = Some(200000)
  /\ result.value.type = "EXPENSE"
  /\ result.value.category_hint = Some(<<"g", "y", "m">>)

\* ------------------------------------------------------------------------
\* parse on a bare description and on the description with an amount, a
\* hint phrase and a date added
\* ------------------------------------------------------------------------
BareDescriptions == {<<>>, <<"c", "o", "f", "f", "e", "e">>, <<"T", "e", "a", "m", " ", "d", "i", "n", "n", "e", "r">>, <<"m", "i", "s", "c", " ", "s", "t", "u", "f", "f">>}

AmountPhrases == {<<"₹", "1", "2", "0", "0">>, <<"5", "0", " ", "u", "s", "d">>}

HintPhrases == {<<"f", "o", "r", " ", "l", "u", "n", "c", "h">>, <<"o", "n", " ", "b", "o", "o", "k", "s">>}

DatePhrases == {<<"t", "o", "d", "a", "y">>, <<"y", "e", "s", "t", "e", "r", "d", "a", "y">>, <<"1", "5", " ", "J", "a", "n", "u", "a", "r", "y">>}

\* what is added to a description: the three phrases, before it or after it
Enrichments ==
  {[phrases |-> Join(<<a, h, d>>), before |-> b] :
     a \in AmountPhrases, h \in HintPhrases, d \in DatePhrases, b \in BOOLEAN}

Enrich(description, x) ==
  IF description = <<>> THEN x.phrases
  ELSE IF x.before THEN Join(<<x.phrases, description>>)
  ELSE Join(<<description, x.phrases>>)

InitEnrich ==
  /\ text \in BareDescriptions
  /\ now \in Clocks
  /\ keywordOrder \in KeywordOrders
  /\ pc = "call"
  /\ result = NoResult
  /\ NoRequests

\* result = TransactionParser.parse(e), for e the input of a first call with
\* the phrases added
ParseEnriched ==
  /\ pc = "done"
  /\ result.kind = "return"
  /\ previous = NoResult
  /\ \E x \in Enrichments : \E e \in {Enrich(text, x)} :
       /\ text' = e
       /\ result' = parse(e, now, keywordOrder)
  /\ previous' = result
  /\ UNCHANGED <<now, keywordOrder, pc, requests_list, endpoint, calls, response, threads>>

NextEnrich == Parse \/ ParseEnriched

SpecEnrich == InitEnrich /\ [][NextEnrich]_vars

\* the record of the first call is that of a bare description: no amount,
\* no hint, no date
Bare(r) ==
  /\ r.kind = "return"
  /\ r.value.amount = None
  /\ r.value.category_hint = None
  /\ r.value.transaction_date = None

\* C13: when an amount, a hint phrase and a date are added to a bare
\* description, the confidence of the result is strictly greater than that
\* of the bare description, and at most 1.0
C13_ConfidenceGrows ==
  (/\ pc = "done"
   /\ previous # NoResult
   /\ Bare(previous)
   /\ \E x \in Enrichments : text = Enrich(previous.value.original_input, x)) =>
    /\ result.kind = "return"
    /\ result.value.confidence > previous.value.confidence
    /\ result.value.confidence <= 10

\* a bare description of confidence 0.1 has become an input of confidence
\* 1.0
C13_Witness ==
  /\ pc = "done"
  /\ previous # NoResult
  /\ Bare(previous)
  /\ previous.value.original_input = <<"c", "o", "f", "f", "e", "e">>
  /\ previous.value.confidence = 1
  /\ text = <<"c", "o", "f", "f", "e", "e", " ", "₹", "1", "2", "0", "0", " ", "f", "o", "r", " ", "l", "u", "n", "c", "h", " ", "t", "o", "d", "a", "y">>
  /\ result.value.confidence = 10

\* C14: the description is never empty: it is the cleaned text when that is
\* not empty, otherwise the category hint when there is one, otherwise the
\* placeholder "Transaction"
C14_DescriptionFallback ==
  Returned =>
    /\ result.value.description # <<>>
    /\ result.value.description =
         (IF CleanedText(text, keywordOrder) # <<>> THEN CleanedText(text, keywordOrder)
          ELSE IF result.value.category_hint # None THEN ValueOf(result.value.category_hint)
          ELSE Placeholder)

\* nothing is left of "for received" once the keyword and the preposition
\* are cut out: the description is the hint
C14_Witness ==
  /\ Returned
  /\ text = <<"f", "o", "r", " ", "r", "e", "c", "e", "i", "v", "e", "d">>
  /\ CleanedText(text, keywordOrder) = <<>>
  /\ result.value.category_hint = Some(<<"r", "e", "c", "e", "i", "v", "e", "d">>)
  /\ result.value.description = <<"r", "e", "c", "e", "i", "v", "e", "d">>

\* ------------------------------------------------------------------------
\* Concurrent calls of TransactionParser.parse
\* ------------------------------------------------------------------------
\* Each call runs the statements of parse one after the other, on its own
\* locals; the calls share the class: its keyword tables (keywordOrder) and
\* the clock (now), which moves on while they run.
\* the most calls that run at once
MaxThreads == 2

\* the most days the clock moves on while they run
MaxTicks == 1

\* the inputs of the calls
ThreadTextList == <<<<"₹", "9", " ", "f", "o", "r", " ", "t", "e", "a", " ", "t", "o", "d", "a", "y">>, <<"g", "o", "t", " ", "5">>>>

ThreadTexts == Range(ThreadTextList)

\* a call of parse(input) that has not run a statement yet
NewThread(input) ==
  [text |-> input, pc |-> "parse_amount", clock |-> None, amount |-> None,
   transaction_date |-> None, transaction_type |-> "", category_hint |-> None,
   description |-> <<>>, result |-> NoResult]

\* the days the clock can read
LaterDays[k \in 0..MaxTicks] == IF k = 0 THEN ServiceDay ELSE AddDays(LaterDays[k - 1], 1)

InitThreads ==
  /\ text = <<>>
  /\ now = ServiceDay
  /\ keywordOrder = ServiceKeywordOrder
  /\ pc = "call"
  /\ result = NoResult
  /\ previous = NoResult
  /\ requests_list = <<>>
  /\ endpoint = "none"
  /\ calls = <<>>
  /\ response = NoResult
  /\ threads \in UNION {[1..n -> {NewThread(t) : t \in ThreadTexts}] : n \in 1..MaxThreads}

\* amount = cls.parse_amount(text)
AmountStep(thread) ==
  Strict(parse_amount(thread.text), LAMBDA amount :
    IF amount.kind = "raise"
    THEN [thread EXCEPT !.pc = "done", !.result = amount]
    ELSE [thread EXCEPT !.pc = "parse_date", !.amount = amount.value])

\* transaction_date = cls.parse_date(text), datetime.now() reading clock
DateStep(thread, clock) ==
  Strict(parse_date(thread.text, clock), LAMBDA transaction_date :
    IF transaction_date.kind = "raise"
    THEN [thread EXCEPT !.pc = "done", !.clock = Some(clock), !.result = transaction_date]
    ELSE [thread EXCEPT !.pc = "detect_type", !.clock = Some(clock),
                        !.transaction_date = transaction_date.value])

\* transaction_type = cls.detect_type(text)
TypeStep(thread) ==
  [thread EXCEPT !.pc = "extract_category_hint", !.transaction_type = detect_type(thread.text)]

\* category_hint = cls.extract_category_hint(text)
HintStep(thread) ==
  [thread EXCEPT !.pc = "extract_description",
                 !.category_hint = extract_category_hint(thread.text)]

\* the description statement that uses up the keyword tables it iterates
DescriptionStep_ConsumesKeywords(thread, keywords) ==
  [thread |-> [thread EXCEPT !.pc = "assemble",
                 !.description = extract_description(thread.text, thread.category_hint,
                                                     keywords)],
   keywords |-> <<>>]

\* description = cls.extract_description(text, category_hint): the locals
\* of the call after the statement, and the keyword tables after it (the
\* statement iterates copies, list(...) + list(...))
DescriptionStep(thread, keywords) ==
  [thread |-> [thread EXCEPT !.pc = "assemble",
                 !.description = extract_description(thread.text, thread.category_hint,
                                                     keywords)],
   keywords |-> keywords]

\* the confidence, the record and the return
AssembleStep(thread) ==
  [thread EXCEPT !.pc = "done",
                 !.result = Return(Assemble(thread.text, thread.amount,
                                            thread.transaction_date, thread.transaction_type,
                                            thread.category_hint, thread.description))]

CallParseAmount ==
  /\ \E t \in DOMAIN threads :
       /\ threads[t].pc = "parse_amount"
       /\ threads' = [threads EXCEPT ![t] = AmountStep(threads[t])]
  /\ UNCHANGED <<text, now, keywordOrder, pc, result, previous, requests_list, endpoint,
                 calls, response>>

CallParseDate ==
  /\ \E t \in DOMAIN threads :
       /\ threads[t].pc = "parse_date"
       /\ threads' = [threads EXCEPT ![t] = DateStep(threads[t], now)]
  /\ UNCHANGED <<text, now, keywordOrder, pc, result, previous, requests_list, endpoint,
                 calls, response>>

CallDetectType ==
  /\ \E t \in DOMAIN threads :
       /\ threads[t].pc = "detect_type"
       /\ threads' = [threads EXCEPT ![t] = TypeStep(threads[t])]
  /\ UNCHANGED <<text, now, keywordOrder, pc, result, previous, requests_list, endpoint,
                 calls, response>>

CallExtractCategoryHint ==
  /\ \E t \in DOMAIN threads :
       /\ threads[t].pc = "extract_category_hint"
       /\ threads' = [threads EXCEPT ![t] = HintStep(threads[t])]
  /\ UNCHANGED <<text, now, keywordOrder, pc, result, previous, requests_list, endpoint,
                 calls, response>>

CallExtractDescription ==
  /\ \E t \in DOMAIN threads :
       /\ threads[t].pc = "extract_description"
       /\ \E after \in {DescriptionStep(threads[t], keywordOrder)} :
            /\ threads' = [threads EXCEPT ![t] = after.thread]
            /\ keywordOrder' = after.keywords
  /\ UNCHANGED <<text, now, pc, result, previous, requests_list, endpoint, calls, response>>

ReturnRecord ==
  /\ \E t \in DOMAIN threads :
       /\ threads[t].pc = "assemble"
       /\ threads' = [threads EXCEPT ![t] = AssembleStep(threads[t])]
  /\ UNCHANGED <<text, now, keywordOrder, pc, result, previous, requests_list, endpoint,
                 calls, response>>

\* midnight passes
Tick ==
  /\ \E k \in 0..(MaxTicks - 1) : now = LaterDays[k] /\ now' = LaterDays[k + 1]
  /\ UNCHANGED <<text, keywordOrder, pc, result, previous, requests_list, endpoint, calls,
                 response, threads>>

NextThreads ==
  \/ CallParseAmount
  \/ CallParseDate
  \/ CallDetectType
  \/ CallExtractCategoryHint
  \/ CallExtractDescription
  \/ ReturnRecord
  \/ Tick

SpecThreads == InitThreads /\ [][NextThreads]_vars

\* what parse returns for each input run alone, under each clock reading and
\* the keyword tables of the class
AloneResults ==
  Strict(<<ThreadTextList, LaterDays, ServiceKeywordOrder>>, LAMBDA a :
    MapIndex(Len(a[1]), LAMBDA i :
      MapIndex(MaxTicks + 1, LAMBDA k : parse(a[1][i], a[2][k - 1], a[3]))))

RunAlone(input, clock) ==
  AloneResults[CHOOSE i \in 1..Len(ThreadTextList) : ThreadTextList[i] = input]
              [CHOOSE k \in 1..(MaxTicks + 1) : LaterDays[k - 1] = clock]

\* C15: concurrent calls of parse share no state that a call writes: no step
\* changes the keyword tables, and under every interleaving a call returns
\* what parse returns for its input alone, under the clock reading the call
\* made
C15_CallsIsolated ==
  /\ [](\A t \in DOMAIN threads :
          threads[t].pc = "done" =>
            threads[t].result = RunAlone(threads[t].text, ValueOf(threads[t].clock)))
  /\ [][keywordOrder' = keywordOrder]_vars

\* the second call has run from its first statement to its return, on the
\* day after the first call read the clock, while the first call is still
\* before its last statement
C15_Witness ==
  /\ Len(threads) = 2
  /\ threads[1].pc = "assemble"
  /\ threads[2].pc = "done"
  /\ threads[2].result.kind = "return"
  /\ threads[1].text = threads[2].text
  /\ threads[1].transaction_date # None
  /\ threads[1].clock # threads[2].clock

\* C16: a request with use_llm = true whose call of the model fails, or
\* answers without a tool call, is parsed by the local parser: the parsed
\* record of the call is the one TransactionParser.parse returns for its input
C16_LlmUnavailableParsedLocally ==
  (pc = "done" /\ endpoint \in {"process", "batch-process"}) =>
    \A i \in 1..Len(calls) :
      (/\ requests_list[i].use_llm
       /\ calls[i].world.token_ok
       /\ calls[i].world.reply.kind \in {"message", "exception"}
       /\ TransactionParser_parse(requests_list[i].input).kind = "return") =>
        calls[i].parsed = Some(TransactionParser_parse(requests_list[i].input).value)

\* C17: on an input with several numbers parse_amount returns the number
\* written in the form of the highest-priority pattern among the forms
\* present (glyph, then currency code, then "of", then bare), wherever the
\* other numbers stand
C17_PatternPriority ==
  \A s \in NumberOrders :
    (pc = "done" /\ text = SeveralNumbers(s)) =>
      /\ result.kind = "return"
      /\ \E k \in 1..Len(s) :
           /\ \A j \in 1..Len(s) : s[k].pattern <= s[j].pattern
           /\ result.value.amount = Some(s[k].hundredths)

\* "3 of 7 20 USD": the bare number comes first, the number of pattern 3
\* second, and the amount is the one before the currency code
C17_Witness ==
  /\ pc = "done"
  /\ text = <<"3", " ", "o", "f", " ", "7", " ", "2", "0", " ", "U", "S", "D">>
  /\ result.kind = "return"
  /\ result.value.amount = Some(2000)

\* the candidate of pattern k on the input: group 1 of its match, converted;
\* None when the pattern does not match or the conversion fails
Candidate(input, k) ==
  Strict(lower(input), LAMBDA text_cleaned :
    Strict(search(amount_patterns[k][1], amount_patterns[k][2], amount_patterns[k][3],
                  text_cleaned), LAMBDA match :
      IF ~match.found THEN None
      ELSE Strict(float(Remove(group1(match, text_cleaned), ",")), LAMBDA amount :
             IF amount.kind = "raise" THEN None ELSE Some(amount.value))))

\* the candidates of the patterns, in priority order
Candidates(input) == MapIndex(Len(amount_patterns), LAMBDA k : Candidate(input, k))

\* the patterns whose candidate is a positive number
PositivePatterns(candidates) ==
  {k \in 1..Len(candidates) : candidates[k] # None /\ ValueOf(candidates[k]) > 0}

\* C18: the amount of the returned record is never zero or negative; it is
\* the candidate of the first pattern, in priority order, whose candidate
\* converts to a positive number, and it is absent exactly when no pattern
\* has such a candidate
C18_PositiveOrNextPattern ==
  (pc = "done" /\ text \in AmountTexts \cup SeveralNumbersTexts) =>
    /\ result.kind = "return"
    /\ result.value.amount # None => ValueOf(result.value.amount) > 0
    /\ Strict(Candidates(text), LAMBDA candidates :
         Strict(PositivePatterns(candidates), LAMBDA positive :
           IF positive = {}
           THEN result.value.amount = None
           ELSE result.value.amount = candidates[Least(positive)]))

\* "5 $0": the candidate of pattern 1 is zero, patterns 2 and 3 do not
\* match, and the amount is the 5 that pattern 4 finds
C18_Witness ==
  /\ pc = "done"
  /\ text = <<"5", " ", "$", "0">>
  /\ Candidate(text, 1) = Some(0)
  /\ result.kind = "return"
  /\ result.value.amount = Some(500)

\* ------------------------------------------------------------------------
\* parse on inputs that write dates
\* ------------------------------------------------------------------------
\* words that hold a relative-day keyword ("snow" holds "now")
RelativeDayWords == {<<"t", "o", "d", "a", "y">>, <<"Y", "e", "s", "t", "e", "r", "d", "a", "y">>, <<"t", "o", "m", "o", "r", "r", "o", "w">>, <<"s", "n", "o", "w">>, <<"l", "a", "s", "t", " ", "n", "i", "g", "h", "t">>}

\* a date in each of the four grammars
AbsoluteDateWords == {<<"1", "5", " ", "J", "a", "n", "u", "a", "r", "y">>, <<"J", "a", "n", "u", "a", "r", "y", " ", "1", "5">>, <<"2", "0", "2", "4", "-", "0", "1", "-", "1", "5">>, <<"1", "5", "/", "0", "1", "/", "2", "0", "2", "4">>}

\* other words and numbers
OtherWords == {<<"l", "u", "n", "c", "h">>, <<"5", " ", "i", "t", "e", "m", "s">>}

DateWords == RelativeDayWords \cup AbsoluteDateWords \cup OtherWords

\* the longest such input, in words
MaxDateWords == 2

DateTexts == UNION {{Join(ws) : ws \in [1..n -> DateWords]} : n \in 0..MaxDateWords}

\* 15 January written with its year, in the two grammars that hold a year
WrittenYearDates ==
  {[written |-> <<"0", "0", "0", "1", "-", "0", "1", "-", "1", "5">>, year |-> 1], [written |-> <<"1", "5", "/", "0", "1", "/", "0", "0", "0", "1">>, year |-> 1],
   [written |-> <<"1", "9", "0", "0", "-", "0", "1", "-", "1", "5">>, year |-> 1900], [written |-> <<"1", "5", "/", "0", "1", "/", "1", "9", "0", "0">>, year |-> 1900],
   [written |-> <<"1", "9", "0", "1", "-", "0", "1", "-", "1", "5">>, year |-> 1901], [written |-> <<"1", "5", "/", "0", "1", "/", "1", "9", "0", "1">>, year |-> 1901],
   [written |-> <<"2", "0", "2", "4", "-", "0", "1", "-", "1", "5">>, year |-> 2024], [written |-> <<"1", "5", "/", "0", "1", "/", "2", "0", "2", "4">>, year |-> 2024],
   [written |-> <<"9", "9", "9", "9", "-", "0", "1", "-", "1", "5">>, year |-> 9999], [written |-> <<"1", "5", "/", "0", "1", "/", "9", "9", "9", "9">>, year |-> 9999]}

\* what stands before such a date
DatePrefixes == {<<>>, <<"P", "a", "i", "d", " ">>, <<"l", "u", "n", "c", "h", " ">>}

WrittenYearTexts == {p \o d.written : p \in DatePrefixes, d \in WrittenYearDates}

InitDate ==
  /\ text \in DateTexts \cup WrittenYearTexts
  /\ now \in Clocks
  /\ keywordOrder = EXPENSE_KEYWORDS \o INCOME_KEYWORDS
  /\ pc = "call"
  /\ result = NoResult
  /\ NoRequests

SpecDate == InitDate /\ [][Next]_vars

\* the places in DATE_KEYWORDS of the keywords the lower-cased input contains
KeywordsIn(input) ==
  Strict(lower(input), LAMBDA text_lower :
    {k \in 1..Len(DATE_KEYWORDS) : Contains(text_lower, DATE_KEYWORDS[k][1])})

\* C19: when the lower-cased input contains a relative-day keyword,
\* transaction_date is the date of the call moved by the offset of the first
\* such keyword in the order of the table, whatever absolute date the input
\* also writes
C19_FirstKeywordInTableOrder ==
  (Returned /\ text \in DateTexts /\ KeywordsIn(text) # {}) =>
    result.value.transaction_date =
      Some(isoformat(AddDays(now, DATE_KEYWORDS[Least(KeywordsIn(text))][2])))

\* "tomorrow Yesterday" on 31 December 2024: yesterday comes before tomorrow
\* in the table, the date is 30 December
C19_Witness ==
  /\ Returned
  /\ text = <<"t", "o", "m", "o", "r", "r", "o", "w", " ", "Y", "e", "s", "t", "e", "r", "d", "a", "y">>
  /\ now = [year |-> 2024, month |-> 12, day |-> 31]
  /\ result.value.transaction_date = Some(<<"2", "0", "2", "4", "-", "1", "2", "-", "3", "0">>)

\* C20: when the input contains no relative-day keyword and writes a date in
\* one of the four grammars, transaction_date is present, whatever precedes
\* the date
C20_AbsoluteDateFound ==
  (/\ Returned
   /\ text \in DateTexts
   /\ KeywordsIn(text) = {}
   /\ \E d \in AbsoluteDateWords : Contains(text, d)) =>
    result.value.transaction_date # None

\* for each date pattern, in order: whether it matches the lower-cased input,
\* and the date the formats read in its leftmost match (None when no format
\* parses it)
GrammarTries(input, clock) ==
  Strict(lower(input), LAMBDA text_lower :
    MapIndex(Len(date_patterns), LAMBDA k :
      [matches |-> search(Empty, date_patterns[k], Empty, text_lower).found,
       date |-> DatePatternTry(text_lower, k, clock).value]))

\* C21 as stated: without a relative-day keyword only the first grammar
\* whose regex matches is parsed; when its match is not a parsable date,
\* transaction_date is absent and nothing is raised
C21_FirstGrammarOnly ==
  (pc = "done" /\ text \in DateTexts /\ KeywordsIn(text) = {}) =>
    Strict(GrammarTries(text, now), LAMBDA tries :
      Strict({k \in 1..Len(tries) : tries[k].matches}, LAMBDA matching :
        (matching # {} /\ tries[Least(matching)].date = None) =>
          /\ result.kind = "return"
          /\ result.value.transaction_date = None))

\* C21, amended: without a relative-day keyword the grammars are tried in
\* order, each on the leftmost match of its regex; a match that no format
\* parses sends the loop on to the next grammar; transaction_date is the date
\* of the first grammar whose match parses, absent when there is none, and
\* nothing is raised
C21_NextGrammarTried ==
  (pc = "done" /\ text \in DateTexts /\ KeywordsIn(text) = {}) =>
    /\ result.kind = "return"
    /\ Strict(GrammarTries(text, now), LAMBDA tries :
         Strict({k \in 1..Len(tries) : tries[k].date # None}, LAMBDA parsed :
           IF parsed = {}
           THEN result.value.transaction_date = None
           ELSE result.value.transaction_date =
                  Some(isoformat(ValueOf(tries[Least(parsed)].date)))))

\* "5 items January 15" on 31 December 2024: grammar 1 matches "5 items",
\* which no format parses, and the date is the one grammar 2 finds
C21_Witness ==
  /\ pc = "done"
  /\ text = <<"5", " ", "i", "t", "e", "m", "s", " ", "J", "a", "n", "u", "a", "r", "y", " ", "1", "5">>
  /\ now = [year |-> 2024, month |-> 12, day |-> 31]
  /\ GrammarTries(text, now)[1] = [matches |-> TRUE, date |-> None]
  /\ result.kind = "return"
  /\ result.value.transaction_date = Some(<<"2", "0", "2", "4", "-", "0", "1", "-", "1", "5">>)

\* C22: a date written with its year, as YYYY-MM-DD or DD/MM/YYYY, is
\* returned with the year written, whatever that year is
C22_WrittenYearKept ==
  \A p \in DatePrefixes, d \in WrittenYearDates :
    (pc = "done" /\ text = p \o d.written) =>
      /\ result.kind = "return"
      /\ result.value.transaction_date =
           Some(isoformat([year |-> d.year, month |-> 1, day |-> 15]))

\* ------------------------------------------------------------------------
\* parse on inputs that name a category
\* ------------------------------------------------------------------------
HintInputWords ==
  {<<"f", "o", "r">>, <<"o", "n">>, <<"a", "t">>, <<"B", "o", "u", "g", "h", "t">>, <<"a">>, <<"x">>, <<"s", "h", "o", "e", "s">>, <<"t", "o", "d", "a", "y">>}

\* the longest such input, in words
MaxHintWords == 3

HintTexts ==
  UNION {{Join(ws) : ws \in [1..n -> HintInputWords]} : n \in 0..MaxHintWords}
  \cup {<<"P", "a", "i", "d", " ", "f", "o", "r", " ", "f", "o", "o", "d", " ", "&", " ", "d", "r", "i", "n", "k", "s", " ", "t", "o", "d", "a", "y">>}

\* "Bought", possibly an article, "shoes", and possibly the for, on or at
\* that ends the run of letters
Articles == {<<>>, <<"a", " ">>, <<"a", "n", " ">>}

StopWords == {<<>>, <<" ", "f", "o", "r">>, <<" ", "o", "n">>, <<" ", "a", "t">>}

BoughtTexts == {<<"B", "o", "u", "g", "h", "t", " ">> \o a \o <<"s", "h", "o", "e", "s">> \o s : a \in Articles, s \in StopWords}

InitHint ==
  /\ text \in HintTexts \cup BoughtTexts
  /\ now = [year |-> 2024, month |-> 12, day |-> 31]
  /\ keywordOrder = EXPENSE_KEYWORDS \o INCOME_KEYWORDS
  /\ pc = "call"
  /\ result = NoResult
  /\ NoRequests

SpecHint == InitHint /\ [][Next]_vars

\* for each hint pattern, in order: the trimmed capture of its leftmost
\* match in the lower-cased input, None when it does not match
Captures(input) ==
  Strict(lower(input), LAMBDA text_lower :
    MapIndex(Len(hint_patterns), LAMBDA k :
      Strict(search(hint_patterns[k][1], hint_patterns[k][2], hint_patterns[k][3],
                    text_lower), LAMBDA match :
        IF match.found THEN Some(strip(group1(match, text_lower))) ELSE None)))

\* C23: the category hint is the trimmed capture of the first grammar, in
\* order, whose trimmed capture has more than one character, and is absent
\* when there is no such grammar; a hint holds only lower-case letters,
\* whitespace and '&', and neither begins nor ends with whitespace
C23_FirstQualifyingGrammar ==
  (pc = "done" /\ text \in HintTexts \cup BoughtTexts) =>
    /\ result.kind = "return"
    /\ Strict(Captures(text), LAMBDA captures :
         Strict({k \in 1..Len(captures) :
                   captures[k] # None /\ Len(ValueOf(captures[k])) > 1}, LAMBDA qualifying :
           IF qualifying = {}
           THEN result.value.category_hint = None
           ELSE result.value.category_hint = captures[Least(qualifying)]))
    /\ result.value.category_hint # None =>
         LET hint == ValueOf(result.value.category_hint)
         IN /\ \A i \in 1..Len(hint) : hint[i] \in LowerLetter \cup Space \cup {"&"}
            /\ hint[1] \notin Space
            /\ hint[Len(hint)] \notin Space

\* "on for x": the capture of grammar 1 is the one character "x", and the
\* hint is the capture of grammar 2
C23_Witness ==
  /\ pc = "done"
  /\ text = <<"o", "n", " ", "f", "o", "r", " ", "x">>
  /\ Captures(text)[1] = Some(<<"x">>)
  /\ result.kind = "return"
  /\ result.value.category_hint = Some(<<"f", "o", "r", " ", "x">>)

\* C24: "Bought", an optional article and a run of letters that ends the
\* input or stands before for, on or at: the hint is the run of letters,
\* with or without the article
C24_ArticleOptional ==
  (pc = "done" /\ text \in BoughtTexts) =>
    /\ result.kind = "return"
    /\ result.value.category_hint = Some(<<"s", "h", "o", "e", "s">>)

\* C25: when the input writes a day number followed by a month abbreviation
\* (as "15 Jan"), the description holds no digit and not that month token
C25_DayMonthRemoved ==
  Returned =>
    Strict(search(Empty, DayMonthRe, Empty, text), LAMBDA match :
      match.found =>
        Strict(group0(match, text), LAMBDA token :
          /\ \A i \in 1..Len(result.value.description) :
               result.value.description[i] \notin Digit
          /\ ~Contains(result.value.description, SubSeq(token, Len(token) - 2, Len(token)))))

\* C26: the description, the confidence and clarification_needed of the
\* returned record are those of the input under every order in which the
\* keyword sets can be iterated
C26_KeywordOrderIrrelevant ==
  Returned =>
    \A order \in KeywordOrders :
      Strict(parse(text, now, order), LAMBDA other :
        /\ other.kind = "return"
        /\ other.value.description = result.value.description
        /\ other.value.confidence = result.value.confidence
        /\ other.value.clarification_needed = result.value.clarification_needed)

\* ------------------------------------------------------------------------
\* process_transaction statement by statement
\* ------------------------------------------------------------------------
\* What the backend answers to the GET of verify_token: a status, or the
\* request fails
VerifyAnswers ==
  {[kind |-> "status", status_code |-> 200],
   [kind |-> "status", status_code |-> 401],
   [kind |-> "exception", exc |-> "ConnectionError"]}

\* verify_token that takes a failed request for a valid token
verify_token_FailOpen(answer) ==
  answer.kind = "exception" \/ answer.status_code = 200

\* BackendClient.verify_token: status 200 is a valid token, a
\* RequestException is caught and gives False
verify_token(answer) ==
  answer.kind = "status" /\ answer.status_code = 200

\* BackendClient.process_mcp_transaction: the JSON body of the answer; a
\* RequestException is logged and raised again
process_mcp_transaction(answer) ==
  IF answer.kind = "json" THEN Return(answer.body) ELSE Raise(answer.exc)

\* one call the handler made: of what, with which argument, what the world
\* answered, and how the call ended
Invocation(op, arg, world, outcome) ==
  [op |-> op, arg |-> arg, world |-> world, outcome |-> outcome]

HandlerTexts ==
  RequestTexts \cup {<<"l", "u", "n", "c", "h">>, <<"A", "d", "d", " ", "₹", "1", "2", "0", "0", " ", "f", "o", "r", " ", "g", "r", "o", "c", "e", "r", "i", "e", "s", " ", "t", "o", "d", "a", "y">>}

InitHandler ==
  /\ text = <<>>
  /\ now = ServiceDay
  /\ keywordOrder = ServiceKeywordOrder
  /\ pc = "call"
  /\ result = NoResult
  /\ previous = NoResult
  /\ requests_list \in {<<[input |-> t, jwt_token |-> "dummy-token", use_llm |-> u]>> :
                          t \in HandlerTexts, u \in BOOLEAN}
  /\ endpoint = "process"
  /\ calls = <<>>
  /\ response = NoResult
  /\ threads = <<>>

\* if not backend_client.verify_token(request.jwt_token)
VerifyToken ==
  /\ pc = "call"
  /\ \E answer \in VerifyAnswers :
       /\ calls' = Append(calls, Invocation("verify_token", requests_list[1].jwt_token,
                                            answer, Return(verify_token(answer))))
       /\ pc' = IF verify_token(answer) THEN "verified" ELSE "rejected"
  /\ UNCHANGED <<text, now, keywordOrder, result, previous, requests_list, endpoint,
                 response, threads>>

\* raise HTTPException(401), passed on by `except HTTPException: raise` and
\* answered by http_exception_handler
RaiseUnauthorized ==
  /\ pc = "rejected"
  /\ result' = Raise(HTTPException(401, "Invalid or expired token"))
  /\ response' = http_exception_handler(HTTPException(401, "Invalid or expired token"))
  /\ pc' = "done"
  /\ UNCHANGED <<text, now, keywordOrder, previous, requests_list, endpoint, calls, threads>>

\* parsed_data = llm_service.parse_transaction_text(request.input)
ParseWithLlm ==
  /\ pc = "verified"
  /\ requests_list[1].use_llm
  /\ \E reply \in Replies :
       \E parsed_data \in {parse_transaction_text(requests_list[1].input, reply)} :
         /\ result' = Return(parsed_data)
         /\ calls' = Append(calls, Invocation("parse_transaction_text",
                                              requests_list[1].input, reply,
                                              Return(parsed_data)))
  /\ pc' = "parsed"
  /\ UNCHANGED <<text, now, keywordOrder, previous, requests_list, endpoint, response,
                 threads>>

\* parsed_data = TransactionParser.parse(request.input)
ParseLocally ==
  /\ pc = "verified"
  /\ ~requests_list[1].use_llm
  /\ \E local \in {parse(requests_list[1].input, now, keywordOrder)} :
       /\ result' = local
       /\ calls' = Append(calls, Invocation("TransactionParser.parse",
                                            requests_list[1].input, now, local))
       /\ pc' = IF local.kind = "raise" THEN "caught" ELSE "parsed"
  /\ UNCHANGED <<text, now, keywordOrder, previous, requests_list, endpoint, response,
                 threads>>

\* the clarification check holds: the request for more detail is returned
AskClarification ==
  /\ pc = "parsed"
  /\ NeedsClarification(result.value)
  /\ response' = ClarificationResponse(result.value, requests_list[1])
  /\ pc' = "done"
  /\ UNCHANGED <<text, now, keywordOrder, result, previous, requests_list, endpoint, calls,
                 threads>>

\* backend_response = backend_client.process_mcp_transaction(parsed_data,
\* request.jwt_token), and its return
SendToBackend ==
  /\ pc = "parsed"
  /\ ~NeedsClarification(result.value)
  /\ \E answer \in BackendAnswers :
       \E backend_response \in {process_mcp_transaction(answer)} :
         /\ calls' = Append(calls, Invocation("process_mcp_transaction", result.value,
                                              answer, backend_response))
         /\ IF backend_response.kind = "return"
            THEN /\ response' = backend_response.value
                 /\ pc' = "done"
                 /\ UNCHANGED result
            ELSE /\ result' = backend_response
                 /\ pc' = "caught"
                 /\ UNCHANGED response
  /\ UNCHANGED <<text, now, keywordOrder, previous, requests_list, endpoint, threads>>

\* except Exception as e: the status-500 answer
CatchException ==
  /\ pc = "caught"
  /\ response' = InternalError(result.exc, requests_list[1])
  /\ pc' = "done"
  /\ UNCHANGED <<text, now, keywordOrder, result, previous, requests_list, endpoint, calls,
                 threads>>

NextHandler ==
  \/ VerifyToken
  \/ RaiseUnauthorized
  \/ ParseWithLlm
  \/ ParseLocally
  \/ AskClarification
  \/ SendToBackend
  \/ CatchException

SpecHandler == InitHandler /\ [][NextHandler]_vars

\* the calls made so far are those of process_transaction statement by
\* statement
Invocations == \A i \in 1..Len(calls) : "op" \in DOMAIN calls[i]

C28_LocalAmountlessNotSent ==
  (Invocations /\ calls # <<>> /\ ~requests_list[1].use_llm) =>
    /\ \A i \in 1..Len(calls) :
         calls[i].op = "process_mcp_transaction" =>
           "amount" \in DOMAIN calls[i].arg /\ calls[i].arg.amount # None
    /\ (/\ pc = "done"
        /\ Len(calls) >= 2
        /\ calls[2].outcome.kind = "return"
        /\ calls[2].outcome.value.amount = None) =>
         /\ Len(calls) = 2
         /\ response = [success |-> FALSE,
                        error |-> "Could not understand transaction details",
                        message |-> "Could you please provide more details? For example: 'Add ₹1200 for groceries today'",
                        confidence |-> calls[2].outcome.value.confidence,
                        original_input |-> requests_list[1].input]

\* "lunch" with the local parser: no amount, and the request has ended with
\* the request for more detail
C28_Witness ==
  /\ pc = "done"
  /\ ~requests_list[1].use_llm
  /\ requests_list[1].input = <<"l", "u", "n", "c", "h">>
  /\ Len(calls) = 2
  /\ calls[2].op = "TransactionParser.parse"
  /\ calls[2].outcome.value.amount = None
  /\ response.success = FALSE
  /\ response.original_input = <<"l", "u", "n", "c", "h">>

\* C29: once the token is verified, an exception raised by a parser or by
\* the call of the backend does not leave the handler: the request ends with
\* status 500, success = false and the original input
C29_ExceptionsAnswered500 ==
  (Invocations /\ \E i \in 2..Len(calls) : calls[i].outcome.kind = "raise") =>
    /\ pc \in {"caught", "done"}
    /\ pc = "done" =>
         /\ response.status_code = 500
         /\ response.content.success = FALSE
         /\ response.content.original_input = requests_list[1].input

\* the call of the backend has failed and the request has ended with 500
C29_Witness ==
  /\ pc = "done"
  /\ Len(calls) = 3
  /\ calls[3].op = "process_mcp_transaction"
  /\ calls[3].outcome = Raise("RequestException")
  /\ response.status_code = 500
  /\ response.content.message = str("RequestException")

\* the model did not give parse_transaction_text a tool call it could use:
\* the call raised, the arguments could not be decoded, or the answer held
\* no call of the tool
Unusable(reply) == reply.kind \in {"message", "exception"}

\* C30: when the model gives no usable tool call, parse_transaction_text
\* returns the record with action CREATE, the input as original_input and as
\* description, no amount, hint or date, type EXPENSE, confidence 0 and
\* clarification_needed true; the handler then answers with the request for
\* more detail and sends nothing to the backend
C30_LlmFailureRecord ==
  pc = "done" =>
    /\ endpoint \in {"process", "batch-process", "parse_transaction_batch"} =>
         \A i \in 1..Len(calls) :
           (/\ endpoint # "parse_transaction_batch" =>
                 calls[i].world.token_ok /\ requests_list[i].use_llm
            /\ Unusable(calls[i].world.reply)) =>
             /\ calls[i].parsed # None
             /\ LET r == ValueOf(calls[i].parsed)
                IN /\ r.action = "CREATE"
                   /\ r.original_input = requests_list[i].input
                   /\ r.amount = None
                   /\ r.category_hint = None
                   /\ r.type = "EXPENSE"
                   /\ r.description = requests_list[i].input
                   /\ r.transaction_date = None
                   /\ r.confidence = 0
                   /\ r.clarification_needed = TRUE
             /\ calls[i].sent = None
             /\ endpoint # "parse_transaction_batch" =>
                  /\ calls[i].outcome.kind = "return"
                  /\ calls[i].outcome.value.success = FALSE
                  /\ calls[i].outcome.value.confidence = 0
                  /\ calls[i].outcome.value.original_input = requests_list[i].input

\* POST /mcp/process with use_llm, the arguments of the tool call could not
\* be decoded: nothing was sent and the answer asks for more detail
C30_Witness ==
  /\ pc = "done"
  /\ endpoint = "process"
  /\ requests_list[1].use_llm
  /\ requests_list[1].input = <<"P", "a", "i", "d", " ", "₹", "2", "0", "0", "0", " ", "f", "o", "r", " ", "g", "y", "m">>
  /\ calls[1].world.token_ok
  /\ calls[1].world.reply = [kind |-> "exception", exc |-> "JSONDecodeError"]
  /\ calls[1].sent = None
  /\ response.success = FALSE

====
